---- MODULE Spec2Model ----
(***************************************************************************)
(* State-machine model of the DisasterRelief ledger contract               *)
(* (smart-contracts/BlockAidToken.sol, contract DisasterRelief).           *)
(*                                                                         *)
(* Every external function of the contract is one action.  A transaction   *)
(* on the chain is atomic and transactions are totally ordered, so each    *)
(* action is the whole call: its modifiers, its require chain, its writes  *)
(* and its ether transfer.  A call that reverts leaves the storage and the *)
(* balance as they were; the revert reason it reports is computed by the   *)
(* ...Revert operators, which walk the modifiers and requires in the order *)
(* the contract evaluates them.                                            *)
(*                                                                         *)
(* Ownable and ReentrancyGuard are imported libraries: the owner is the    *)
(* deployer throughout, and a call is never entered while another runs.    *)
(***************************************************************************)
EXTENDS Integers, Sequences, FiniteSets, TLC

\* ------------------------------------------------------------------ bounds
MaxMined == 6          \* cap on the transactions that change the ledger
MaxAmount == 2         \* largest fund total / msg.value / amount an input carries
UintWidth == 4         \* width of the scaled-down uint256
MaxBatch == 3          \* most transactions submitted together, and their fund's total

MaxUint == 2 ^ UintWidth - 1

\* transactions followed once two events stand verified
MaxCustody == 4

\* calls of the frontend store's actions that are followed
MaxCalls == 2

\* transactions followed with the events they emit
MaxLogged == 5

\* the largest severity score createDisasterEvent accepts
MaxScore == 100

\* ------------------------------------------------------------------ inputs
Owner == "owner"
Principals == {"owner", "alice"}
\* address(this)
Self == "DisasterRelief"
\* an externally owned account, a contract whose receive function reverts, and
\* the ledger contract itself (its receive function accepts the ether)
Recipients == {"payee", "rejector", Self}
Hashes == {"h1", "h2"}
Timestamps == {"t"}

OK == "ok"
NotAuthorized == "Not authorized"
NotOwner == "Ownable: caller is not the owner"
EventDoesNotExist == "Event does not exist"
FundDoesNotExist == "Fund does not exist"
InvalidSeverityScore == "Invalid severity score"
ImageAlreadyProcessed == "Image already processed"
AlreadyVerified == "Already verified"
DonationZero == "Donation must be greater than 0"
EventNotVerified == "Event not verified"
AmountZero == "Amount must be greater than 0"
FundNotApproved == "Fund not approved"
InsufficientFundBalance == "Insufficient fund balance"
InsufficientContractBalance == "Insufficient contract balance"
ArithmeticPanic == "Panic(0x11)"
TransferFailed == "transfer failed"

InvalidTransaction == "Invalid transaction"
ReentrantCall == "ReentrancyGuard: reentrant call"

\* the submissions a caller makes: _type, _location, _severityScore,
\* _affectedPopulation, _infrastructureDamage, _impactArea
EventInputs ==
    { [disasterType |-> "FLOOD", location |-> "Kerala", severityScore |-> 40,
       estimatedAffected |-> 10000, infrastructureDamage |-> 75, impactArea |-> 50],
      [disasterType |-> "EARTHQUAKE", location |-> "Assam", severityScore |-> 71,
       estimatedAffected |-> 0, infrastructureDamage |-> 150, impactArea |-> 0],
      [disasterType |-> "CYCLONE", location |-> "Odisha", severityScore |-> 101,
       estimatedAffected |-> 500, infrastructureDamage |-> 20, impactArea |-> 5] }

\* amounts of wei in calls: none, one, and the largest the callers hold
Amounts == {0, 1, MaxAmount}
\* amounts offered to distributeFund: the small ones and the largest uint
DistributeAmounts == Amounts \cup {MaxUint}
EventIdInputs == 0 .. Cardinality(Hashes) + 1

\* what the frontend's store holds before any action ran
Null == "null"
InitialStore ==
    [events |-> <<>>, selectedEvent |-> Null, funds |-> <<>>,
     loading |-> FALSE, error |-> Null]

\* ------------------------------------------------------------------- state
VARIABLES
    authorizedOfficials,    \* mapping(address => bool)
    eventCounter,
    transactionCounter,
    fundCounter,
    disasterEvents,         \* mapping(uint256 => DisasterEvent), the keys written
    fundTransactions,       \* mapping(uint256 => FundTransaction)
    disasterFunds,          \* mapping(uint256 => DisasterFund)
    processedImageHashes,   \* mapping(string => bool)
    allEventIds,
    allTransactionIds,
    balance,                \* address(this).balance
    mined,                  \* transactions mined so far that changed the ledger
    batch,                  \* distributeFund transactions submitted together
    receipts,               \* revert reason of each batch transaction mined so far
    score,                  \* the _score a caller passes to getSeverityLevel
    level,                  \* what getSeverityLevel returned for it
    factors,                \* the sub-scores handed to the severity scorer
    assessment,             \* what the severity scorer returned for them
    logs,                   \* the events emitted so far, where they are followed
    frame,                  \* the distributeFund call in progress, where its
                            \* steps are followed: empty between transactions
    store,                  \* the state of the frontend's useDisasterStore
    requests                \* the store actions called: how the request each
                            \* awaits ended, and how the call itself ended

\* the contract: its storage and its balance
ledger == <<authorizedOfficials, eventCounter, transactionCounter, fundCounter,
            disasterEvents, fundTransactions, disasterFunds, processedImageHashes,
            allEventIds, allTransactionIds, balance>>

\* the callers' side: what was submitted and what came back
\* the frontend: its store and the calls of the store's actions
frontend == <<store, requests>>

callers == <<batch, receipts, score, level, factors, assessment, frontend>>

\* what the chain holds of the transactions besides the contract's state
trace == <<logs, frame>>

vars == <<ledger, mined, callers, trace>>

\* the ids a caller can name: none, the stored ones, and the next one
FundIdInputs == 0 .. fundCounter + 1

\* a transaction that reverts, or writes nothing new, is not counted
CountMined == mined' = IF ledger' # ledger THEN mined + 1 ELSE mined

\* a write m[k] = v to a mapping
Store(m, k, v) == [x \in DOMAIN m \cup {k} |-> IF x = k THEN v ELSE m[x]]

\* -------------------------------------------------------- modifiers, views
\* onlyAuthorized without the msg.sender == owner() alternative
onlyAuthorized_FlagOnly(sender) == authorizedOfficials[sender]

onlyAuthorized(sender) == sender = Owner \/ authorizedOfficials[sender]

onlyOwner(sender) == sender = Owner

eventExists(eventId) == eventId > 0 /\ eventId <= eventCounter

fundExists(fundId) == fundId > 0 /\ fundId <= fundCounter

\* a guard that lets a call in while another is in progress
nonReentrant_Unguarded == TRUE

\* nonReentrant: no guarded call of the contract is in progress
nonReentrant == frame = <<>>

\* getSeverityLevel with < where the contract compares with <=
getSeverityLevel_Strict(_score) ==
    IF _score < 40 THEN "LOW"
    ELSE IF _score < 70 THEN "MEDIUM"
    ELSE "HIGH"

getSeverityLevel(_score) ==
    IF _score <= 40 THEN "LOW"
    ELSE IF _score <= 70 THEN "MEDIUM"
    ELSE "HIGH"

\* the view functions: the revert reason of a call and, when there is none,
\* the value it returns
getDisasterEventRevert(eventId) ==
    IF ~eventExists(eventId) THEN EventDoesNotExist ELSE OK

getDisasterEvent(eventId) == disasterEvents[eventId]

\* getFundTransaction accepting _transactionId 0
getFundTransactionRevert_ZeroAllowed(transactionId) ==
    IF ~(transactionId >= 0 /\ transactionId <= transactionCounter)
    THEN InvalidTransaction ELSE OK

getFundTransactionRevert(transactionId) ==
    IF ~(transactionId > 0 /\ transactionId <= transactionCounter)
    THEN InvalidTransaction ELSE OK

getFundTransaction(transactionId) == fundTransactions[transactionId]

getDisasterFundRevert(fundId) ==
    IF ~fundExists(fundId) THEN FundDoesNotExist ELSE OK

getDisasterFund(fundId) == disasterFunds[fundId]

getAllEventIds == allEventIds

getAllTransactionIds == allTransactionIds

getContractBalance == balance

\* ------------------------------------------------------------- constructor

Init ==
    /\ authorizedOfficials = [p \in Principals |-> p = Owner]
    /\ eventCounter = 0
    /\ transactionCounter = 0
    /\ fundCounter = 0
    /\ disasterEvents = <<>>
    /\ fundTransactions = <<>>
    /\ disasterFunds = <<>>
    /\ processedImageHashes = [h \in Hashes |-> FALSE]
    /\ allEventIds = <<>>
    /\ allTransactionIds = <<>>
    /\ balance = 0
    /\ mined = 0
    /\ batch = <<>>
    /\ receipts = <<>>
    /\ score = 0
    /\ level = "none"
    /\ factors = <<>>
    /\ assessment = <<>>
    /\ logs = <<>>
    /\ frame = <<>>
    /\ store = InitialStore
    /\ requests = <<>>

\* ---------------------------------------------------------- admin functions
addAuthorizedOfficialRevert(sender) ==
    IF ~onlyOwner(sender) THEN NotOwner ELSE OK

addAuthorizedOfficial(sender, official) ==
    /\ IF addAuthorizedOfficialRevert(sender) = OK
       THEN authorizedOfficials' = [authorizedOfficials EXCEPT ![official] = TRUE]
       ELSE UNCHANGED authorizedOfficials
    /\ UNCHANGED <<eventCounter, transactionCounter, fundCounter, disasterEvents,
                   fundTransactions, disasterFunds, processedImageHashes,
                   allEventIds, allTransactionIds, balance>>

removeAuthorizedOfficialRevert(sender) ==
    IF ~onlyOwner(sender) THEN NotOwner ELSE OK

\* removeAuthorizedOfficial writing the value addAuthorizedOfficial writes
removeAuthorizedOfficial_SetsTrue(sender, official) ==
    /\ IF removeAuthorizedOfficialRevert(sender) = OK
       THEN authorizedOfficials' = [authorizedOfficials EXCEPT ![official] = TRUE]
       ELSE UNCHANGED authorizedOfficials
    /\ UNCHANGED <<eventCounter, transactionCounter, fundCounter, disasterEvents,
                   fundTransactions, disasterFunds, processedImageHashes,
                   allEventIds, allTransactionIds, balance>>

removeAuthorizedOfficial(sender, official) ==
    /\ IF removeAuthorizedOfficialRevert(sender) = OK
       THEN authorizedOfficials' = [authorizedOfficials EXCEPT ![official] = FALSE]
       ELSE UNCHANGED authorizedOfficials
    /\ UNCHANGED <<eventCounter, transactionCounter, fundCounter, disasterEvents,
                   fundTransactions, disasterFunds, processedImageHashes,
                   allEventIds, allTransactionIds, balance>>

\* ----------------------------------------------------------- core functions
\* createDisasterEvent without its duplicate-image require
createDisasterEventRevert_NoDuplicateCheck(sender, in, imageHash) ==
    IF ~onlyAuthorized(sender) THEN NotAuthorized
    ELSE IF ~(in.severityScore >= 0 /\ in.severityScore <= 100) THEN InvalidSeverityScore
    ELSE OK

\* createDisasterEvent without its severity-score require
createDisasterEventRevert_NoScoreCheck(sender, in, imageHash) ==
    IF ~onlyAuthorized(sender) THEN NotAuthorized
    ELSE IF processedImageHashes[imageHash] THEN ImageAlreadyProcessed
    ELSE OK

createDisasterEventRevert(sender, in, imageHash) ==
    IF ~onlyAuthorized(sender) THEN NotAuthorized
    ELSE IF ~(in.severityScore >= 0 /\ in.severityScore <= 100) THEN InvalidSeverityScore
    ELSE IF processedImageHashes[imageHash] THEN ImageAlreadyProcessed
    ELSE OK

\* createDisasterEvent that forgets processedImageHashes[_imageHash] = true
createDisasterEvent_NoMark(sender, in, imageHash, now) ==
    IF createDisasterEventRevert(sender, in, imageHash) = OK
    THEN /\ eventCounter' = eventCounter + 1
         /\ disasterEvents' = Store(disasterEvents, eventCounter',
                [eventId |-> eventCounter',
                 disasterType |-> in.disasterType,
                 location |-> in.location,
                 timestamp |-> now,
                 imageHash |-> imageHash,
                 severityScore |-> in.severityScore,
                 severityLevel |-> getSeverityLevel(in.severityScore),
                 reportedBy |-> sender,
                 isVerified |-> FALSE,
                 estimatedAffected |-> in.estimatedAffected,
                 infrastructureDamage |-> in.infrastructureDamage,
                 impactArea |-> in.impactArea])
         /\ allEventIds' = Append(allEventIds, eventCounter')
         /\ UNCHANGED <<authorizedOfficials, transactionCounter, fundCounter,
                        fundTransactions, disasterFunds, allTransactionIds, balance,
                        processedImageHashes>>
    ELSE UNCHANGED ledger

\* createDisasterEvent deriving the level from _infrastructureDamage
createDisasterEvent_LevelFromDamage(sender, in, imageHash, now) ==
    IF createDisasterEventRevert(sender, in, imageHash) = OK
    THEN /\ eventCounter' = eventCounter + 1
         /\ disasterEvents' = Store(disasterEvents, eventCounter',
                [eventId |-> eventCounter',
                 disasterType |-> in.disasterType,
                 location |-> in.location,
                 timestamp |-> now,
                 imageHash |-> imageHash,
                 severityScore |-> in.severityScore,
                 severityLevel |-> getSeverityLevel(in.infrastructureDamage),
                 reportedBy |-> sender,
                 isVerified |-> FALSE,
                 estimatedAffected |-> in.estimatedAffected,
                 infrastructureDamage |-> in.infrastructureDamage,
                 impactArea |-> in.impactArea])
         /\ processedImageHashes' = [processedImageHashes EXCEPT ![imageHash] = TRUE]
         /\ allEventIds' = Append(allEventIds, eventCounter')
         /\ UNCHANGED <<authorizedOfficials, transactionCounter, fundCounter,
                        fundTransactions, disasterFunds, allTransactionIds, balance>>
    ELSE UNCHANGED ledger

\* createDisasterEvent without the push onto allEventIds
createDisasterEvent_NoPush(sender, in, imageHash, now) ==
    IF createDisasterEventRevert(sender, in, imageHash) = OK
    THEN /\ eventCounter' = eventCounter + 1
         /\ disasterEvents' = Store(disasterEvents, eventCounter',
                [eventId |-> eventCounter',
                 disasterType |-> in.disasterType,
                 location |-> in.location,
                 timestamp |-> now,
                 imageHash |-> imageHash,
                 severityScore |-> in.severityScore,
                 severityLevel |-> getSeverityLevel(in.severityScore),
                 reportedBy |-> sender,
                 isVerified |-> FALSE,
                 estimatedAffected |-> in.estimatedAffected,
                 infrastructureDamage |-> in.infrastructureDamage,
                 impactArea |-> in.impactArea])
         /\ processedImageHashes' = [processedImageHashes EXCEPT ![imageHash] = TRUE]
         /\ UNCHANGED <<authorizedOfficials, transactionCounter, fundCounter,
                        fundTransactions, disasterFunds, allEventIds,
                        allTransactionIds, balance>>
    ELSE UNCHANGED ledger

createDisasterEvent(sender, in, imageHash, now) ==
    IF createDisasterEventRevert(sender, in, imageHash) = OK
    THEN /\ eventCounter' = eventCounter + 1
         /\ disasterEvents' = Store(disasterEvents, eventCounter',
                [eventId |-> eventCounter',
                 disasterType |-> in.disasterType,
                 location |-> in.location,
                 timestamp |-> now,
                 imageHash |-> imageHash,
                 severityScore |-> in.severityScore,
                 severityLevel |-> getSeverityLevel(in.severityScore),
                 reportedBy |-> sender,
                 isVerified |-> FALSE,
                 estimatedAffected |-> in.estimatedAffected,
                 infrastructureDamage |-> in.infrastructureDamage,
                 impactArea |-> in.impactArea])
         /\ processedImageHashes' = [processedImageHashes EXCEPT ![imageHash] = TRUE]
         /\ allEventIds' = Append(allEventIds, eventCounter')
         /\ UNCHANGED <<authorizedOfficials, transactionCounter, fundCounter,
                        fundTransactions, disasterFunds, allTransactionIds, balance>>
    ELSE UNCHANGED ledger

\* verifyDisasterEvent without its already-verified require
verifyDisasterEventRevert_NoVerifiedCheck(sender, eventId) ==
    IF ~onlyAuthorized(sender) THEN NotAuthorized
    ELSE IF ~eventExists(eventId) THEN EventDoesNotExist
    ELSE OK

\* verifyDisasterEvent with the eventExists modifier listed before onlyAuthorized
verifyDisasterEventRevert_ExistsFirst(sender, eventId) ==
    IF ~eventExists(eventId) THEN EventDoesNotExist
    ELSE IF ~onlyAuthorized(sender) THEN NotAuthorized
    ELSE IF disasterEvents[eventId].isVerified THEN AlreadyVerified
    ELSE OK

verifyDisasterEventRevert(sender, eventId) ==
    IF ~onlyAuthorized(sender) THEN NotAuthorized
    ELSE IF ~eventExists(eventId) THEN EventDoesNotExist
    ELSE IF disasterEvents[eventId].isVerified THEN AlreadyVerified
    ELSE OK

\* verifyDisasterEvent also recording the verifier in reportedBy
verifyDisasterEvent_Reattributes(sender, eventId) ==
    IF verifyDisasterEventRevert(sender, eventId) = OK
    THEN /\ disasterEvents' = [disasterEvents EXCEPT ![eventId].isVerified = TRUE,
                                                     ![eventId].reportedBy = sender]
         /\ UNCHANGED <<authorizedOfficials, eventCounter, transactionCounter,
                        fundCounter, fundTransactions, disasterFunds,
                        processedImageHashes, allEventIds, allTransactionIds, balance>>
    ELSE UNCHANGED ledger

verifyDisasterEvent(sender, eventId) ==
    IF verifyDisasterEventRevert(sender, eventId) = OK
    THEN /\ disasterEvents' = [disasterEvents EXCEPT ![eventId].isVerified = TRUE]
         /\ UNCHANGED <<authorizedOfficials, eventCounter, transactionCounter,
                        fundCounter, fundTransactions, disasterFunds,
                        processedImageHashes, allEventIds, allTransactionIds, balance>>
    ELSE UNCHANGED ledger

\* donateToEvent without its event-verified require
donateToEventRevert_NoVerifiedCheck(sender, eventId, value) ==
    IF ~eventExists(eventId) THEN EventDoesNotExist
    ELSE IF ~(value > 0) THEN DonationZero
    ELSE OK

\* donateToEvent without its msg.value > 0 require
donateToEventRevert_NoZeroCheck(sender, eventId, value) ==
    IF ~eventExists(eventId) THEN EventDoesNotExist
    ELSE IF ~disasterEvents[eventId].isVerified THEN EventNotVerified
    ELSE OK

donateToEventRevert(sender, eventId, value) ==
    IF ~eventExists(eventId) THEN EventDoesNotExist
    ELSE IF ~(value > 0) THEN DonationZero
    ELSE IF ~disasterEvents[eventId].isVerified THEN EventNotVerified
    ELSE OK

donateToEvent(sender, eventId, purpose, value, now) ==
    IF donateToEventRevert(sender, eventId, value) = OK
    THEN /\ transactionCounter' = transactionCounter + 1
         /\ fundTransactions' = Store(fundTransactions, transactionCounter',
                [transactionId |-> transactionCounter',
                 eventId |-> eventId,
                 donor |-> sender,
                 amount |-> value,
                 timestamp |-> now,
                 status |-> "PENDING",
                 purpose |-> purpose,
                 isBlockchainVerified |-> TRUE])
         /\ allTransactionIds' = Append(allTransactionIds, transactionCounter')
         /\ balance' = balance + value
         /\ UNCHANGED <<authorizedOfficials, eventCounter, fundCounter, disasterEvents,
                        disasterFunds, processedImageHashes, allEventIds>>
    ELSE UNCHANGED ledger

\* createAndApproveFund without its event-verified require
createAndApproveFundRevert_NoVerifiedCheck(sender, eventId, amount) ==
    IF ~onlyAuthorized(sender) THEN NotAuthorized
    ELSE IF ~eventExists(eventId) THEN EventDoesNotExist
    ELSE IF ~(amount > 0) THEN AmountZero
    ELSE OK

\* createAndApproveFund that approves no more than the contract holds
createAndApproveFundRevert_WithinBalance(sender, eventId, amount) ==
    IF ~onlyAuthorized(sender) THEN NotAuthorized
    ELSE IF ~eventExists(eventId) THEN EventDoesNotExist
    ELSE IF ~(amount > 0) THEN AmountZero
    ELSE IF ~disasterEvents[eventId].isVerified THEN EventNotVerified
    ELSE IF ~(amount <= balance) THEN InsufficientContractBalance
    ELSE OK

createAndApproveFundRevert(sender, eventId, amount) ==
    IF ~onlyAuthorized(sender) THEN NotAuthorized
    ELSE IF ~eventExists(eventId) THEN EventDoesNotExist
    ELSE IF ~(amount > 0) THEN AmountZero
    ELSE IF ~disasterEvents[eventId].isVerified THEN EventNotVerified
    ELSE OK

\* createAndApproveFund reading fundCounter before incrementing it
createAndApproveFund_IdBeforeIncrement(sender, eventId, amount, now) ==
    IF createAndApproveFundRevert(sender, eventId, amount) = OK
    THEN /\ fundCounter' = fundCounter + 1
         /\ disasterFunds' = Store(disasterFunds, fundCounter,
                [fundId |-> fundCounter,
                 eventId |-> eventId,
                 totalAmount |-> amount,
                 distributedAmount |-> 0,
                 createdAt |-> now,
                 approvedBy |-> sender,
                 status |-> "APPROVED"])
         /\ UNCHANGED <<authorizedOfficials, eventCounter, transactionCounter,
                        disasterEvents, fundTransactions, processedImageHashes,
                        allEventIds, allTransactionIds, balance>>
    ELSE UNCHANGED ledger

createAndApproveFund(sender, eventId, amount, now) ==
    IF createAndApproveFundRevert(sender, eventId, amount) = OK
    THEN /\ fundCounter' = fundCounter + 1
         /\ disasterFunds' = Store(disasterFunds, fundCounter',
                [fundId |-> fundCounter',
                 eventId |-> eventId,
                 totalAmount |-> amount,
                 distributedAmount |-> 0,
                 createdAt |-> now,
                 approvedBy |-> sender,
                 status |-> "APPROVED"])
         /\ UNCHANGED <<authorizedOfficials, eventCounter, transactionCounter,
                        disasterEvents, fundTransactions, processedImageHashes,
                        allEventIds, allTransactionIds, balance>>
    ELSE UNCHANGED ledger

\* _recipient.transfer(_amount): forwards the ether, reverting the whole call
\* when the recipient's receive function reverts
transferSucceeds(recipient) == recipient # "rejector"

\* distributeFund without the pool-cap require
distributeFundRevert_NoCap(sender, fundId, recipient, amount) ==
    IF ~onlyAuthorized(sender) THEN NotAuthorized
    ELSE IF ~fundExists(fundId) THEN FundDoesNotExist
    ELSE IF disasterFunds[fundId].status # "APPROVED" THEN FundNotApproved
    ELSE IF disasterFunds[fundId].distributedAmount + amount > MaxUint THEN ArithmeticPanic
    ELSE IF ~(amount <= balance) THEN InsufficientContractBalance
    ELSE IF ~transferSucceeds(recipient) THEN TransferFailed
    ELSE OK

\* distributeFund whose pool-cap require uses < in place of <=
distributeFundRevert_StrictCap(sender, fundId, recipient, amount) ==
    IF ~onlyAuthorized(sender) THEN NotAuthorized
    ELSE IF ~fundExists(fundId) THEN FundDoesNotExist
    ELSE IF disasterFunds[fundId].status # "APPROVED" THEN FundNotApproved
    ELSE IF disasterFunds[fundId].distributedAmount + amount > MaxUint THEN ArithmeticPanic
    ELSE IF ~(disasterFunds[fundId].distributedAmount + amount
                < disasterFunds[fundId].totalAmount) THEN InsufficientFundBalance
    ELSE IF ~(amount <= balance) THEN InsufficientContractBalance
    ELSE IF ~transferSucceeds(recipient) THEN TransferFailed
    ELSE OK

\* distributeFund without the status require
distributeFundRevert_NoStatusCheck(sender, fundId, recipient, amount) ==
    IF ~onlyAuthorized(sender) THEN NotAuthorized
    ELSE IF ~fundExists(fundId) THEN FundDoesNotExist
    ELSE IF disasterFunds[fundId].distributedAmount + amount > MaxUint THEN ArithmeticPanic
    ELSE IF ~(disasterFunds[fundId].distributedAmount + amount
                <= disasterFunds[fundId].totalAmount) THEN InsufficientFundBalance
    ELSE IF ~(amount <= balance) THEN InsufficientContractBalance
    ELSE IF ~transferSucceeds(recipient) THEN TransferFailed
    ELSE OK

\* distributeFund with the contract-balance require ahead of the fund-balance one
distributeFundRevert_BalanceFirst(sender, fundId, recipient, amount) ==
    IF ~onlyAuthorized(sender) THEN NotAuthorized
    ELSE IF ~fundExists(fundId) THEN FundDoesNotExist
    ELSE IF disasterFunds[fundId].status # "APPROVED" THEN FundNotApproved
    ELSE IF ~(amount <= balance) THEN InsufficientContractBalance
    ELSE IF disasterFunds[fundId].distributedAmount + amount > MaxUint THEN ArithmeticPanic
    ELSE IF ~(disasterFunds[fundId].distributedAmount + amount
                <= disasterFunds[fundId].totalAmount) THEN InsufficientFundBalance
    ELSE IF ~transferSucceeds(recipient) THEN TransferFailed
    ELSE OK

\* distributeFund compiled with unchecked arithmetic: the sum wraps modulo 2^256
distributeFundRevert_Wrapping(sender, fundId, recipient, amount) ==
    IF ~onlyAuthorized(sender) THEN NotAuthorized
    ELSE IF ~fundExists(fundId) THEN FundDoesNotExist
    ELSE IF disasterFunds[fundId].status # "APPROVED" THEN FundNotApproved
    ELSE IF ~((disasterFunds[fundId].distributedAmount + amount) % (MaxUint + 1)
                <= disasterFunds[fundId].totalAmount) THEN InsufficientFundBalance
    ELSE IF ~(amount <= balance) THEN InsufficientContractBalance
    ELSE IF ~transferSucceeds(recipient) THEN TransferFailed
    ELSE OK

distributeFundRevert(sender, fundId, recipient, amount) ==
    IF ~onlyAuthorized(sender) THEN NotAuthorized
    ELSE IF ~fundExists(fundId) THEN FundDoesNotExist
    ELSE IF disasterFunds[fundId].status # "APPROVED" THEN FundNotApproved
    ELSE IF disasterFunds[fundId].distributedAmount + amount > MaxUint THEN ArithmeticPanic
    ELSE IF ~(disasterFunds[fundId].distributedAmount + amount
                <= disasterFunds[fundId].totalAmount) THEN InsufficientFundBalance
    ELSE IF ~(amount <= balance) THEN InsufficientContractBalance
    ELSE IF ~transferSucceeds(recipient) THEN TransferFailed
    ELSE OK

\* distributeFund that marks the fund DISTRIBUTED only above its total
distributeFund_StrictThreshold(sender, fundId, recipient, amount) ==
    IF distributeFundRevert(sender, fundId, recipient, amount) = OK
    THEN LET fund == disasterFunds[fundId]
             distributed == fund.distributedAmount + amount
         IN /\ disasterFunds' = [disasterFunds EXCEPT ![fundId] =
                    [fund EXCEPT !.distributedAmount = distributed,
                                 !.status = IF distributed > fund.totalAmount
                                            THEN "DISTRIBUTED" ELSE fund.status]]
            /\ balance' = IF recipient = Self THEN balance ELSE balance - amount
            /\ UNCHANGED <<authorizedOfficials, eventCounter, transactionCounter,
                           fundCounter, disasterEvents, fundTransactions,
                           processedImageHashes, allEventIds, allTransactionIds>>
    ELSE UNCHANGED ledger

\* distributeFund that assigns the amount (=) where the contract adds it (+=)
distributeFund_Overwrite(sender, fundId, recipient, amount) ==
    IF distributeFundRevert(sender, fundId, recipient, amount) = OK
    THEN LET fund == disasterFunds[fundId]
             distributed == amount
         IN /\ disasterFunds' = [disasterFunds EXCEPT ![fundId] =
                    [fund EXCEPT !.distributedAmount = distributed,
                                 !.status = IF distributed >= fund.totalAmount
                                            THEN "DISTRIBUTED" ELSE fund.status]]
            /\ balance' = IF recipient = Self THEN balance ELSE balance - amount
            /\ UNCHANGED <<authorizedOfficials, eventCounter, transactionCounter,
                           fundCounter, disasterEvents, fundTransactions,
                           processedImageHashes, allEventIds, allTransactionIds>>
    ELSE UNCHANGED ledger

\* distributeFund paying with an unchecked send: a refused payment no longer
\* reverts the bookkeeping written before it
distributeFund_UncheckedSend(sender, fundId, recipient, amount) ==
    IF distributeFundRevert(sender, fundId, recipient, amount) \in {OK, TransferFailed}
    THEN /\ disasterFunds' =
                [disasterFunds EXCEPT
                    ![fundId].distributedAmount = @ + amount,
                    ![fundId].status =
                        IF disasterFunds[fundId].distributedAmount + amount
                               >= disasterFunds[fundId].totalAmount
                        THEN "DISTRIBUTED" ELSE @]
         /\ balance' = IF recipient = Self \/ ~transferSucceeds(recipient)
                       THEN balance ELSE balance - amount
         /\ UNCHANGED <<authorizedOfficials, eventCounter, transactionCounter,
                        fundCounter, disasterEvents, fundTransactions,
                        processedImageHashes, allEventIds, allTransactionIds>>
    ELSE UNCHANGED ledger

distributeFund(sender, fundId, recipient, amount) ==
    IF distributeFundRevert(sender, fundId, recipient, amount) = OK
    THEN LET fund == disasterFunds[fundId]
             distributed == fund.distributedAmount + amount
         IN /\ disasterFunds' = [disasterFunds EXCEPT ![fundId] =
                    [fund EXCEPT !.distributedAmount = distributed,
                                 !.status = IF distributed >= fund.totalAmount
                                            THEN "DISTRIBUTED" ELSE fund.status]]
            /\ balance' = IF recipient = Self THEN balance ELSE balance - amount
            /\ UNCHANGED <<authorizedOfficials, eventCounter, transactionCounter,
                           fundCounter, disasterEvents, fundTransactions,
                           processedImageHashes, allEventIds, allTransactionIds>>
    ELSE UNCHANGED ledger

\* receive() external payable {}
receive(value) ==
    /\ balance' = balance + value
    /\ UNCHANGED <<authorizedOfficials, eventCounter, transactionCounter, fundCounter,
                   disasterEvents, fundTransactions, disasterFunds,
                   processedImageHashes, allEventIds, allTransactionIds>>

\* ------------------------------------------------------------------- events
\* the events a call leaves in the log of its transaction; a reverted call
\* leaves none
addAuthorizedOfficialLogs(sender, official) == <<>>

removeAuthorizedOfficialLogs(sender, official) == <<>>

createDisasterEventLogs(sender, in, imageHash) ==
    IF createDisasterEventRevert(sender, in, imageHash) = OK
    THEN << [event |-> "DisasterEventCreated",
             eventId |-> eventCounter + 1,
             disasterType |-> in.disasterType,
             location |-> in.location,
             severityScore |-> in.severityScore,
             reportedBy |-> sender] >>
    ELSE <<>>

\* verifyDisasterEvent without its emit
verifyDisasterEventLogs_Silent(sender, eventId) == <<>>

verifyDisasterEventLogs(sender, eventId) ==
    IF verifyDisasterEventRevert(sender, eventId) = OK
    THEN << [event |-> "DisasterEventVerified", eventId |-> eventId,
             isVerified |-> TRUE] >>
    ELSE <<>>

donateToEventLogs(sender, eventId, value) ==
    IF donateToEventRevert(sender, eventId, value) = OK
    THEN << [event |-> "FundDonated",
             transactionId |-> transactionCounter + 1,
             eventId |-> eventId,
             donor |-> sender,
             amount |-> value] >>
    ELSE <<>>

createAndApproveFundLogs(sender, eventId, amount) ==
    IF createAndApproveFundRevert(sender, eventId, amount) = OK
    THEN << [event |-> "FundApproved",
             fundId |-> fundCounter + 1,
             eventId |-> eventId,
             amount |-> amount,
             approvedBy |-> sender] >>
    ELSE <<>>

distributeFundLogs(sender, fundId, recipient, amount) ==
    IF distributeFundRevert(sender, fundId, recipient, amount) = OK
    THEN << [event |-> "FundDistributed",
             fundId |-> fundId,
             eventId |-> disasterFunds[fundId].eventId,
             amount |-> amount] >>
    ELSE <<>>

receiveLogs(value) == <<>>

\* --------------------------------------------------------------- the ledger

AddAuthorizedOfficial ==
    /\ mined < MaxMined
    /\ \E sender \in Principals, official \in Principals :
        /\ addAuthorizedOfficial(sender, official)
        /\ CountMined
        /\ UNCHANGED <<callers, trace>>

RemoveAuthorizedOfficial ==
    /\ mined < MaxMined
    /\ \E sender \in Principals, official \in Principals :
        /\ removeAuthorizedOfficial(sender, official)
        /\ CountMined
        /\ UNCHANGED <<callers, trace>>

CreateDisasterEvent ==
    /\ mined < MaxMined
    /\ \E sender \in Principals, in \in EventInputs, imageHash \in Hashes,
       now \in Timestamps :
        /\ createDisasterEvent(sender, in, imageHash, now)
        /\ CountMined
        /\ UNCHANGED <<callers, trace>>

VerifyDisasterEvent ==
    /\ mined < MaxMined
    /\ \E sender \in Principals, eventId \in EventIdInputs :
        /\ verifyDisasterEvent(sender, eventId)
        /\ CountMined
        /\ UNCHANGED <<callers, trace>>

DonateToEvent ==
    /\ mined < MaxMined
    /\ \E sender \in Principals, eventId \in EventIdInputs, value \in Amounts,
       now \in Timestamps :
        /\ donateToEvent(sender, eventId, "relief", value, now)
        /\ CountMined
        /\ UNCHANGED <<callers, trace>>

CreateAndApproveFund ==
    /\ mined < MaxMined
    /\ \E sender \in Principals, eventId \in EventIdInputs, amount \in Amounts,
       now \in Timestamps :
        /\ createAndApproveFund(sender, eventId, amount, now)
        /\ CountMined
        /\ UNCHANGED <<callers, trace>>

DistributeFund ==
    /\ mined < MaxMined
    /\ \E sender \in Principals, fundId \in FundIdInputs, recipient \in Recipients,
       amount \in DistributeAmounts :
        /\ distributeFund(sender, fundId, recipient, amount)
        /\ CountMined
        /\ UNCHANGED <<callers, trace>>

Receive ==
    /\ mined < MaxMined
    /\ \E value \in Amounts \ {0} :
        /\ receive(value)
        /\ CountMined
        /\ UNCHANGED <<callers, trace>>

Next ==
    \/ AddAuthorizedOfficial
    \/ RemoveAuthorizedOfficial
    \/ CreateDisasterEvent
    \/ VerifyDisasterEvent
    \/ DonateToEvent
    \/ CreateAndApproveFund
    \/ DistributeFund
    \/ Receive

Spec == Init /\ [][Next]_vars

\* ------------------------------------------- a batch of concurrent callers
\* N callers submit distributeFund transactions on one fresh fund at the same
\* time; the chain mines them one at a time, in any order.

\* sequences of n amounts that sum to total
RECURSIVE AmountVectors(_, _)
AmountVectors(n, total) ==
    IF n = 0 THEN (IF total = 0 THEN {<<>>} ELSE {})
    ELSE UNION { { <<a>> \o v : v \in AmountVectors(n - 1, total - a) } : a \in 0 .. total }

\* the ledger after createDisasterEvent, verifyDisasterEvent,
\* addAuthorizedOfficial, createAndApproveFund(1, total) and ether received
FreshFundLedger(total, held) ==
    /\ authorizedOfficials = [p \in Principals |-> TRUE]
    /\ eventCounter = 1
    /\ transactionCounter = 0
    /\ fundCounter = 1
    /\ disasterEvents = Store(<<>>, 1,
            [eventId |-> 1, disasterType |-> "FLOOD", location |-> "Kerala",
             timestamp |-> "t", imageHash |-> "h1", severityScore |-> 40,
             severityLevel |-> getSeverityLevel(40), reportedBy |-> Owner,
             isVerified |-> TRUE, estimatedAffected |-> 10000,
             infrastructureDamage |-> 75, impactArea |-> 50])
    /\ fundTransactions = <<>>
    /\ disasterFunds = Store(<<>>, 1,
            [fundId |-> 1, eventId |-> 1, totalAmount |-> total,
             distributedAmount |-> 0, createdAt |-> "t", approvedBy |-> Owner,
             status |-> "APPROVED"])
    /\ processedImageHashes = [h \in Hashes |-> h = "h1"]
    /\ allEventIds = <<1>>
    /\ allTransactionIds = <<>>
    /\ balance = held

InitBatch ==
    \E total \in 1 .. MaxBatch, n \in 1 .. MaxBatch :
        /\ \E held \in total .. total + 1 : FreshFundLedger(total, held)
        /\ mined = 5     \* the five transactions that built this ledger
        /\ \E amounts \in AmountVectors(n, total) :
           \E senders \in [1 .. n -> Principals], recipients \in [1 .. n -> Recipients] :
              batch = [i \in 1 .. n |->
                          [sender |-> senders[i], fundId |-> 1,
                           recipient |-> recipients[i], amount |-> amounts[i]]]
        /\ receipts = <<>>
        /\ score = 0
        /\ level = "none"
        /\ factors = <<>>
        /\ assessment = <<>>
        /\ logs = <<>>
        /\ frame = <<>>
        /\ store = InitialStore
        /\ requests = <<>>

\* the chain mines one pending transaction of the batch
MineBatchTransaction ==
    \E i \in DOMAIN batch \ DOMAIN receipts :
        LET tx == batch[i] IN
        /\ distributeFund(tx.sender, tx.fundId, tx.recipient, tx.amount)
        /\ receipts' = Store(receipts, i,
              distributeFundRevert(tx.sender, tx.fundId, tx.recipient, tx.amount))
        /\ CountMined
        /\ UNCHANGED <<batch, score, level, factors, assessment, frontend, trace>>

NextBatch == MineBatchTransaction

SpecBatch == InitBatch /\ [][NextBatch]_vars

\* ------------------------------------------------- the call in progress
\* distributeFund followed through its steps: the modifiers and the requires,
\* the writes, the transfer that hands control to the recipient, who may call
\* back into the contract, and the return from the transfer
distributeFundGuarded(sender, fundId, recipient, amount) ==
    IF ~onlyAuthorized(sender) THEN NotAuthorized
    ELSE IF ~fundExists(fundId) THEN FundDoesNotExist
    ELSE IF ~nonReentrant THEN ReentrantCall
    ELSE distributeFundRevert(sender, fundId, recipient, amount)

donateToEventGuarded(sender, eventId, value) ==
    IF ~eventExists(eventId) THEN EventDoesNotExist
    ELSE IF ~nonReentrant THEN ReentrantCall
    ELSE donateToEventRevert(sender, eventId, value)

\* the recipients of a payment: accounts, and contracts that may call back
Payees == Recipients \cup Principals

\* what the recipient's code can make of the payment: an account accepts it,
\* a contract accepts or reverts as it chooses
TransferOutcomes(recipient) ==
    IF recipient \in Principals THEN BOOLEAN ELSE {transferSucceeds(recipient)}

\* the state a revert of the outermost call returns to
Snapshot ==
    [authorizedOfficials |-> authorizedOfficials, eventCounter |-> eventCounter,
     transactionCounter |-> transactionCounter, fundCounter |-> fundCounter,
     disasterEvents |-> disasterEvents, fundTransactions |-> fundTransactions,
     disasterFunds |-> disasterFunds,
     processedImageHashes |-> processedImageHashes, allEventIds |-> allEventIds,
     allTransactionIds |-> allTransactionIds, balance |-> balance]

\* a failed transfer that leaves the writes made before it in place
Revert_KeepsWrites(before) == UNCHANGED ledger

Revert(before) ==
    /\ authorizedOfficials' = before.authorizedOfficials
    /\ eventCounter' = before.eventCounter
    /\ transactionCounter' = before.transactionCounter
    /\ fundCounter' = before.fundCounter
    /\ disasterEvents' = before.disasterEvents
    /\ fundTransactions' = before.fundTransactions
    /\ disasterFunds' = before.disasterFunds
    /\ processedImageHashes' = before.processedImageHashes
    /\ allEventIds' = before.allEventIds
    /\ allTransactionIds' = before.allTransactionIds
    /\ balance' = before.balance

InitReentrancy ==
    /\ \E total \in 1 .. MaxBatch, held \in 0 .. MaxAmount :
          FreshFundLedger(total, held)
    /\ mined = 5
    /\ batch = <<>>
    /\ receipts = <<>>
    /\ score = 0
    /\ level = "none"
    /\ factors = <<>>
    /\ assessment = <<>>
    /\ logs = <<>>
    /\ frame = <<>>
    /\ store = InitialStore
    /\ requests = <<>>

\* lines 272-288: the call passes its modifiers and requires, writes the fund
\* and starts the transfer, which moves the ether and runs the recipient
EnterDistributeFund ==
    /\ mined < MaxMined
    /\ \E sender \in Principals, fundId \in FundIdInputs, recipient \in Payees,
          amount \in DistributeAmounts :
        /\ distributeFundGuarded(sender, fundId, recipient, amount)
              \in {OK, TransferFailed}
        /\ disasterFunds' =
              [disasterFunds EXCEPT
                  ![fundId].distributedAmount = @ + amount,
                  ![fundId].status =
                      IF disasterFunds[fundId].distributedAmount + amount
                             >= disasterFunds[fundId].totalAmount
                      THEN "DISTRIBUTED" ELSE @]
        /\ balance' = IF recipient = Self THEN balance ELSE balance - amount
        /\ frame' = << [sender |-> sender, fundId |-> fundId,
                        recipient |-> recipient, amount |-> amount,
                        before |-> Snapshot, reentered |-> "none"] >>
        /\ UNCHANGED <<authorizedOfficials, eventCounter, transactionCounter,
                       fundCounter, disasterEvents, fundTransactions,
                       processedImageHashes, allEventIds, allTransactionIds>>
        /\ UNCHANGED <<mined, callers, logs>>

\* the recipient, a contract, calls distributeFund from its receive function
ReenterDistributeFund ==
    /\ frame # <<>>
    /\ frame[1].recipient \in Principals
    /\ frame[1].reentered = "none"
    /\ \E fundId \in FundIdInputs, recipient \in Payees,
          amount \in DistributeAmounts :
        LET reason == distributeFundGuarded(frame[1].recipient, fundId,
                                            recipient, amount) IN
        /\ IF reason = OK
           THEN distributeFund(frame[1].recipient, fundId, recipient, amount)
           ELSE UNCHANGED ledger
        /\ frame' = << [frame[1] EXCEPT !.reentered = reason] >>
        /\ UNCHANGED <<mined, callers, logs>>

\* the recipient, a contract, calls donateToEvent from its receive function
ReenterDonateToEvent ==
    /\ frame # <<>>
    /\ frame[1].recipient \in Principals
    /\ frame[1].reentered = "none"
    /\ \E eventId \in EventIdInputs, value \in Amounts, now \in Timestamps :
        LET reason == donateToEventGuarded(frame[1].recipient, eventId, value) IN
        /\ IF reason = OK
           THEN donateToEvent(frame[1].recipient, eventId, "relief", value, now)
           ELSE UNCHANGED ledger
        /\ frame' = << [frame[1] EXCEPT !.reentered = reason] >>
        /\ UNCHANGED <<mined, callers, logs>>

\* lines 288-290: the transfer returns and the event is emitted, or the
\* transfer reverts and the whole call with it
ExitDistributeFund ==
    /\ frame # <<>>
    /\ \E delivered \in TransferOutcomes(frame[1].recipient) :
        IF delivered
        THEN /\ UNCHANGED ledger
             /\ logs' = Append(logs,
                    [event |-> "FundDistributed", fundId |-> frame[1].fundId,
                     eventId |-> disasterFunds[frame[1].fundId].eventId,
                     amount |-> frame[1].amount])
             /\ receipts' = <<OK>>
             /\ mined' = mined + 1
        ELSE /\ Revert(frame[1].before)
             /\ receipts' = <<TransferFailed>>
             /\ UNCHANGED <<logs, mined>>
    /\ frame' = <<>>
    /\ UNCHANGED <<batch, score, level, factors, assessment, frontend>>

NextReentrancy ==
    \/ EnterDistributeFund
    \/ ReenterDistributeFund
    \/ ReenterDonateToEvent
    \/ ExitDistributeFund

SpecReentrancy == InitReentrancy /\ [][NextReentrancy]_vars

\* ------------------------------------------------------ the event log
\* the ledger's transactions again, each with its events appended to the log
\* of the chain
Logged(emitted) ==
    /\ logs' = logs \o emitted
    /\ mined' = IF ledger' # ledger \/ emitted # <<>> THEN mined + 1 ELSE mined
    /\ UNCHANGED <<callers, frame>>

LogAddAuthorizedOfficial ==
    /\ mined < MaxLogged
    /\ \E sender \in Principals, official \in Principals :
        /\ addAuthorizedOfficial(sender, official)
        /\ Logged(addAuthorizedOfficialLogs(sender, official))

LogRemoveAuthorizedOfficial ==
    /\ mined < MaxLogged
    /\ \E sender \in Principals, official \in Principals :
        /\ removeAuthorizedOfficial(sender, official)
        /\ Logged(removeAuthorizedOfficialLogs(sender, official))

LogCreateDisasterEvent ==
    /\ mined < MaxLogged
    /\ \E sender \in Principals, in \in EventInputs, imageHash \in Hashes,
          now \in Timestamps :
        /\ createDisasterEvent(sender, in, imageHash, now)
        /\ Logged(createDisasterEventLogs(sender, in, imageHash))

LogVerifyDisasterEvent ==
    /\ mined < MaxLogged
    /\ \E sender \in Principals, eventId \in EventIdInputs :
        /\ verifyDisasterEvent(sender, eventId)
        /\ Logged(verifyDisasterEventLogs(sender, eventId))

LogDonateToEvent ==
    /\ mined < MaxLogged
    /\ \E sender \in Principals, eventId \in EventIdInputs, value \in Amounts,
          now \in Timestamps :
        /\ donateToEvent(sender, eventId, "relief", value, now)
        /\ Logged(donateToEventLogs(sender, eventId, value))

LogCreateAndApproveFund ==
    /\ mined < MaxLogged
    /\ \E sender \in Principals, eventId \in EventIdInputs, amount \in Amounts,
          now \in Timestamps :
        /\ createAndApproveFund(sender, eventId, amount, now)
        /\ Logged(createAndApproveFundLogs(sender, eventId, amount))

LogDistributeFund ==
    /\ mined < MaxLogged
    /\ \E sender \in Principals, fundId \in FundIdInputs, recipient \in Recipients,
          amount \in DistributeAmounts :
        /\ distributeFund(sender, fundId, recipient, amount)
        /\ Logged(distributeFundLogs(sender, fundId, recipient, amount))

LogReceive ==
    /\ mined < MaxLogged
    /\ \E value \in Amounts \ {0} :
        /\ receive(value)
        /\ Logged(receiveLogs(value))

NextLog ==
    \/ LogAddAuthorizedOfficial
    \/ LogRemoveAuthorizedOfficial
    \/ LogCreateDisasterEvent
    \/ LogVerifyDisasterEvent
    \/ LogDonateToEvent
    \/ LogCreateAndApproveFund
    \/ LogDistributeFund
    \/ LogReceive

SpecLog == Init /\ [][NextLog]_vars

\* ------------------------------------------------------ the shared custody
\* the ledger after the owner reported and verified two events: donations,
\* funds and distributions for either event, and ether sent to receive()
TwoEventLedger ==
    /\ authorizedOfficials = [p \in Principals |-> p = Owner]
    /\ eventCounter = 2
    /\ transactionCounter = 0
    /\ fundCounter = 0
    /\ disasterEvents =
          << [eventId |-> 1, disasterType |-> "FLOOD", location |-> "Kerala",
              timestamp |-> "t", imageHash |-> "h1", severityScore |-> 40,
              severityLevel |-> getSeverityLevel(40), reportedBy |-> Owner,
              isVerified |-> TRUE, estimatedAffected |-> 10000,
              infrastructureDamage |-> 75, impactArea |-> 50],
             [eventId |-> 2, disasterType |-> "EARTHQUAKE", location |-> "Assam",
              timestamp |-> "t", imageHash |-> "h2", severityScore |-> 71,
              severityLevel |-> getSeverityLevel(71), reportedBy |-> Owner,
              isVerified |-> TRUE, estimatedAffected |-> 0,
              infrastructureDamage |-> 150, impactArea |-> 0] >>
    /\ fundTransactions = <<>>
    /\ disasterFunds = <<>>
    /\ processedImageHashes = [h \in Hashes |-> TRUE]
    /\ allEventIds = <<1, 2>>
    /\ allTransactionIds = <<>>
    /\ balance = 0

InitCustody ==
    /\ TwoEventLedger
    /\ mined = 4     \* the four transactions that built this ledger
    /\ batch = <<>>
    /\ receipts = <<>>
    /\ score = 0
    /\ level = "none"
    /\ factors = <<>>
    /\ assessment = <<>>
    /\ logs = <<>>
    /\ frame = <<>>
    /\ store = InitialStore
    /\ requests = <<>>

CustodyDonateToEvent ==
    /\ mined - 4 < MaxCustody
    /\ \E sender \in Principals, eventId \in EventIdInputs, value \in Amounts,
          now \in Timestamps :
        /\ donateToEvent(sender, eventId, "relief", value, now)
        /\ CountMined
        /\ UNCHANGED <<callers, trace>>

CustodyCreateAndApproveFund ==
    /\ mined - 4 < MaxCustody
    /\ \E sender \in Principals, eventId \in EventIdInputs, amount \in Amounts,
          now \in Timestamps :
        /\ createAndApproveFund(sender, eventId, amount, now)
        /\ CountMined
        /\ UNCHANGED <<callers, trace>>

CustodyDistributeFund ==
    /\ mined - 4 < MaxCustody
    /\ \E sender \in Principals, fundId \in FundIdInputs, recipient \in Recipients,
          amount \in DistributeAmounts :
        /\ distributeFund(sender, fundId, recipient, amount)
        /\ CountMined
        /\ UNCHANGED <<callers, trace>>

CustodyReceive ==
    /\ mined - 4 < MaxCustody
    /\ \E value \in Amounts \ {0} :
        /\ receive(value)
        /\ CountMined
        /\ UNCHANGED <<callers, trace>>

NextCustody ==
    \/ CustodyDonateToEvent
    \/ CustodyCreateAndApproveFund
    \/ CustodyDistributeFund
    \/ CustodyReceive

SpecCustody == InitCustody /\ [][NextCustody]_vars

\* ------------------------------------------------- the severity-level view
\* getSeverityLevel is public and pure: any caller evaluates it on any score,
\* against the freshly deployed ledger as against any other.
Scores == 0 .. MaxScore + 1

InitSeverity ==
    /\ authorizedOfficials = [p \in Principals |-> p = Owner]
    /\ eventCounter = 0
    /\ transactionCounter = 0
    /\ fundCounter = 0
    /\ disasterEvents = <<>>
    /\ fundTransactions = <<>>
    /\ disasterFunds = <<>>
    /\ processedImageHashes = [h \in Hashes |-> FALSE]
    /\ allEventIds = <<>>
    /\ allTransactionIds = <<>>
    /\ balance = 0
    /\ mined = 0
    /\ batch = <<>>
    /\ receipts = <<>>
    /\ score \in Scores
    /\ level = "none"
    /\ factors = <<>>
    /\ assessment = <<>>
    /\ logs = <<>>
    /\ frame = <<>>
    /\ store = InitialStore
    /\ requests = <<>>

GetSeverityLevel ==
    \E s \in Scores :
        /\ score' = s
        /\ level' = getSeverityLevel(s)
        /\ UNCHANGED <<ledger, mined, batch, receipts, factors, assessment, frontend,
                     trace>>

NextSeverity == GetSeverityLevel

SpecSeverity == InitSeverity /\ [][NextSeverity]_vars

\* ------------------------------------------------------ the severity scorer
\* The scorer is described by the documentation (docs/AI_MODEL.md, Severity
\* Scoring and Weighting System); its code is not part of the sources, so
\* computeScore follows the written contract. Probabilities and sub-scores
\* are in percent, the score and the contributions in hundredths of a point.
\* The normalisation of a measurement to its sub-score is left open by the
\* contract: the environmental inputs are taken as their sub-scores.
Weights ==
    [image |-> 40, rainfall |-> 10, waterLevel |-> 10, population |-> 15,
     infrastructure |-> 15, impactArea |-> 10]

Factors == DOMAIN Weights

RECURSIVE SumOver(_, _)
SumOver(f, keys) ==
    IF keys = {} THEN 0
    ELSE LET k == CHOOSE x \in keys : TRUE IN f[k] + SumOver(f, keys \ {k})

Percents == {0, 50, 100}

ClassProbabilities == [low : Percents, medium : Percents, high : Percents]

ScorerInputs ==
    [classProbabilities : ClassProbabilities, rainfall : Percents,
     waterLevel : Percents, population : Percents, infrastructure : Percents,
     impactArea : Percents]

InvalidInput == "invalid input"

Max(a, b) == IF a >= b THEN a ELSE b

Distance(a, b) == IF a >= b THEN a - b ELSE b - a

Clamp(x, lo, hi) == IF x < lo THEN lo ELSE IF x > hi THEN hi ELSE x

validProbabilities(p) == p.low + p.medium + p.high = 100

\* 100 * (0.5*medium + 1.0*high)
imageScore(p) == (50 * p.medium + 100 * p.high) \div 100

subScores(in) ==
    [image |-> imageScore(in.classProbabilities), rainfall |-> in.rainfall,
     waterLevel |-> in.waterLevel, population |-> in.population,
     infrastructure |-> in.infrastructure, impactArea |-> in.impactArea]

breakdown(in) == [k \in Factors |-> Weights[k] * subScores(in)[k]]

\* score <= 40 LOW, 40 < score <= 70 MEDIUM, score > 70 HIGH
severityLevel(hundredths) ==
    IF hundredths <= 40 * 100 THEN "LOW"
    ELSE IF hundredths <= 70 * 100 THEN "MEDIUM"
    ELSE "HIGH"

\* the contract fixes only that confidence rises with the peak class
\* probability and with the agreement of the image sub-score and the
\* environmental sub-scores, within [0,1]: their mean is taken, in percent
confidence(in) ==
    LET p == in.classProbabilities
        peak == Max(p.low, Max(p.medium, p.high))
        environment ==
            (SumOver(breakdown(in), Factors \ {"image"}))
                \div (100 - Weights.image)
        agreement == 100 - Distance(imageScore(p), environment)
    IN (peak + agreement) \div 2

\* a scorer whose result depends on how often it ran before
computeScore_Drifting(in) ==
    IF ~validProbabilities(in.classProbabilities) THEN [error |-> InvalidInput]
    ELSE LET total == Clamp(SumOver(breakdown(in), Factors) + Len(assessment),
                            0, 100 * 100)
         IN [score |-> total, level |-> severityLevel(total),
             confidence |-> confidence(in), breakdown |-> breakdown(in)]

computeScore(in) ==
    IF ~validProbabilities(in.classProbabilities) THEN [error |-> InvalidInput]
    ELSE LET total == Clamp(SumOver(breakdown(in), Factors), 0, 100 * 100)
         IN [score |-> total, level |-> severityLevel(total),
             confidence |-> confidence(in), breakdown |-> breakdown(in)]

\* how often one report is scored
Evaluations == 2

InitScorer ==
    /\ authorizedOfficials = [p \in Principals |-> p = Owner]
    /\ eventCounter = 0
    /\ transactionCounter = 0
    /\ fundCounter = 0
    /\ disasterEvents = <<>>
    /\ fundTransactions = <<>>
    /\ disasterFunds = <<>>
    /\ processedImageHashes = [h \in Hashes |-> FALSE]
    /\ allEventIds = <<>>
    /\ allTransactionIds = <<>>
    /\ balance = 0
    /\ mined = 0
    /\ batch = <<>>
    /\ receipts = <<>>
    /\ score = 0
    /\ level = "none"
    /\ \E in \in ScorerInputs : factors = <<in>>
    /\ assessment = <<>>
    /\ logs = <<>>
    /\ frame = <<>>
    /\ store = InitialStore
    /\ requests = <<>>

\* the report is scored once more
ComputeScore ==
    /\ Len(assessment) < Evaluations
    /\ assessment' = Append(assessment, computeScore(factors[1]))
    /\ UNCHANGED <<ledger, mined, batch, receipts, score, level, factors, frontend,
                 trace>>

NextScorer == ComputeScore

SpecScorer == InitScorer /\ [][NextScorer]_vars

\* ------------------------------------------------------ the frontend store
\* useDisasterStore: each action is an async function that sets the loading
\* flag, awaits one request to the API and, when the request settles, writes
\* the store and clears the flag. The script runs one piece at a time: the
\* part of an action before its await, and the part after it, are each one
\* step, and the actions called meanwhile run between them.
Undefined == "undefined"
ErrorMessage == "Network Error"

StoreActions == {"fetchEvents", "getEvent", "createEvent", "verifyEvent", "createFund"}

\* the ids of the events the API knows
StoreEventIds == {1, 2}

StoreEvents == [id : StoreEventIds, is_verified : BOOLEAN]

\* the pages listEvents answers with
EventPages ==
    { <<>>,
      << [id |-> 1, is_verified |-> FALSE] >>,
      << [id |-> 2, is_verified |-> FALSE], [id |-> 1, is_verified |-> FALSE] >>,
      << [id |-> 2, is_verified |-> FALSE], [id |-> 1, is_verified |-> TRUE] >> }

\* the argument an action is called with: an event id, or a form or page
\* whose content the store does not read
StoreArguments(action) ==
    IF action \in {"getEvent", "verifyEvent"} THEN StoreEventIds ELSE {Undefined}

\* response.data of the request an action awaits
Responses(action, arg) ==
    CASE action = "fetchEvents" -> {[events |-> page] : page \in EventPages}
      [] action = "getEvent" -> {e \in StoreEvents : e.id = arg}
      [] action = "createEvent" -> {e \in StoreEvents : ~e.is_verified}
      [] action = "verifyEvent" -> {[success |-> TRUE]}
      [] action = "createFund" -> {[fund_id |-> 1]}

\* set({ loading: true, error: null })
started(s) == [s EXCEPT !.loading = TRUE, !.error = Null]

\* verifyEvent marking every event of the list
verifyEventFulfilled_MarksAll(s, eventId) ==
    [s EXCEPT !.events =
        [k \in DOMAIN s.events |-> [s.events[k] EXCEPT !.is_verified = TRUE]]]

\* events.map((e) => e.id === eventId ? { ...e, is_verified: true } : e)
verifyEventFulfilled(s, eventId) ==
    [s EXCEPT !.events =
        [k \in DOMAIN s.events |->
            IF s.events[k].id = eventId
            THEN [s.events[k] EXCEPT !.is_verified = TRUE]
            ELSE s.events[k]]]

\* the try block of an action after its request succeeded
fulfilled(s, action, arg, data) ==
    CASE action = "fetchEvents" -> [s EXCEPT !.events = data.events]
      [] action = "getEvent" -> [s EXCEPT !.selectedEvent = data]
      [] action = "createEvent" -> [s EXCEPT !.events = <<data>> \o s.events]
      [] action = "verifyEvent" -> verifyEventFulfilled(s, arg)
      [] action = "createFund" -> s

\* what the action returns, as a sequence of no value (undefined) or one:
\* fetchEvents has no return statement
returned(action, data) == IF action = "fetchEvents" THEN <<>> ELSE <<data>>

\* the catch block: set({ error: error.message })
caught(s) == [s EXCEPT !.error = ErrorMessage]

\* the actions whose catch block throws the error again
rethrows(action) == action \in {"createEvent", "createFund"}

\* the finally block: set({ loading: false })
settled(s) == [s EXCEPT !.loading = FALSE]

\* the calls whose request is in flight
InFlight == {i \in DOMAIN requests : requests[i].status = "pending"}

InitStore ==
    /\ authorizedOfficials = [p \in Principals |-> p = Owner]
    /\ eventCounter = 0
    /\ transactionCounter = 0
    /\ fundCounter = 0
    /\ disasterEvents = <<>>
    /\ fundTransactions = <<>>
    /\ disasterFunds = <<>>
    /\ processedImageHashes = [h \in Hashes |-> FALSE]
    /\ allEventIds = <<>>
    /\ allTransactionIds = <<>>
    /\ balance = 0
    /\ mined = 0
    /\ batch = <<>>
    /\ receipts = <<>>
    /\ score = 0
    /\ level = "none"
    /\ factors = <<>>
    /\ assessment = <<>>
    /\ logs = <<>>
    /\ frame = <<>>
    /\ store = InitialStore
    /\ requests = <<>>

\* a component calls an action, which runs up to its await
CallStoreAction ==
    /\ Len(requests) < MaxCalls
    /\ \E action \in StoreActions :
       \E arg \in StoreArguments(action) :
        /\ store' = started(store)
        /\ requests' = Append(requests,
              [action |-> action, arg |-> arg, request |-> "pending",
               status |-> "pending", value |-> <<>>])
    /\ UNCHANGED <<ledger, mined, batch, receipts, score, level, factors,
                   assessment, trace>>

\* a request succeeds: the try block and the finally block of its action run
RequestFulfilled ==
    /\ \E i \in InFlight :
        LET r == requests[i] IN
        \E data \in Responses(r.action, r.arg) :
            /\ store' = settled(fulfilled(store, r.action, r.arg, data))
            /\ requests' = [requests EXCEPT
                               ![i].request = "succeeded",
                               ![i].status = "resolved",
                               ![i].value = returned(r.action, data)]
    /\ UNCHANGED <<ledger, mined, batch, receipts, score, level, factors,
                   assessment, trace>>

\* a request fails: the catch block and the finally block of its action run
RequestRejected ==
    /\ \E i \in InFlight :
        LET r == requests[i] IN
        /\ store' = settled(caught(store))
        /\ requests' = [requests EXCEPT
                           ![i].request = "failed",
                           ![i].status = IF rethrows(r.action)
                                         THEN "rejected" ELSE "resolved",
                           ![i].value = <<>>]
    /\ UNCHANGED <<ledger, mined, batch, receipts, score, level, factors,
                   assessment, trace>>

NextStore ==
    \/ CallStoreAction
    \/ RequestFulfilled
    \/ RequestRejected

SpecStore == InitStore /\ [][NextStore]_vars

\* ================================================================== claims
FundIds == 1 .. fundCounter
EventIds == 1 .. eventCounter
TransactionIds == 1 .. transactionCounter
PositiveAmounts == DistributeAmounts \ {0}

\* C1: in every reachable state every fund has distributedAmount <= totalAmount.
C1_DistributedWithinTotal ==
    \A f \in FundIds :
        disasterFunds[f].distributedAmount <= disasterFunds[f].totalAmount

\* a fund that distributions have filled to its total
C1_Witness ==
    \E f \in FundIds :
        /\ disasterFunds[f].distributedAmount > 0
        /\ disasterFunds[f].distributedAmount = disasterFunds[f].totalAmount

\* the batch is complete when every transaction of it has been mined
BatchMined == DOMAIN receipts = DOMAIN batch

BatchOutcome ==
    /\ \A i \in DOMAIN receipts : receipts[i] = OK
    /\ disasterFunds[1].distributedAmount <= disasterFunds[1].totalAmount
    /\ BatchMined =>
          /\ disasterFunds[1].distributedAmount = disasterFunds[1].totalAmount
          /\ disasterFunds[1].status = "DISTRIBUTED"

BatchPositiveAndAccepted ==
    \A i \in DOMAIN batch :
        batch[i].amount > 0 /\ transferSucceeds(batch[i].recipient)

C3_StatusTracksDistributed ==
    \A f \in FundIds :
        LET fund == disasterFunds[f] IN
        /\ fund.status \in {"APPROVED", "DISTRIBUTED"}
        /\ fund.status = "DISTRIBUTED" <=> fund.distributedAmount = fund.totalAmount
        /\ fund.status = "APPROVED" <=> fund.distributedAmount < fund.totalAmount

\* a fund of the largest total, fully distributed
C3_Witness ==
    \E f \in FundIds :
        /\ disasterFunds[f].status = "DISTRIBUTED"
        /\ disasterFunds[f].totalAmount = MaxAmount

\* C4: in every step a fund's distributedAmount does not decrease and its
\* totalAmount and eventId stay; a DISTRIBUTED fund stays DISTRIBUTED with the
\* same distributedAmount.
C4_FundMonotone ==
    [][\A f \in FundIds :
          LET old == disasterFunds[f]
              new == disasterFunds'[f]
          IN /\ new.distributedAmount >= old.distributedAmount
             /\ new.totalAmount = old.totalAmount
             /\ new.eventId = old.eventId
             /\ old.status = "DISTRIBUTED" =>
                   /\ new.status = "DISTRIBUTED"
                   /\ new.distributedAmount = old.distributedAmount]_vars

\* a partially distributed fund: the next distribution adds to what was paid
C4_Witness ==
    \E f \in FundIds :
        /\ disasterFunds[f].status = "APPROVED"
        /\ disasterFunds[f].distributedAmount > 0
        /\ balance > 0

\* C5 as stated: on a fully distributed fund every further distributeFund call
\* (by an authorized caller) with a positive amount fails with the pool-cap
\* error "Insufficient fund balance".
C5_Original ==
    \A f \in FundIds, sender \in Principals, recipient \in Recipients,
       amount \in PositiveAmounts :
        (disasterFunds[f].status = "DISTRIBUTED" /\ onlyAuthorized(sender)) =>
            distributeFundRevert(sender, f, recipient, amount) = InsufficientFundBalance

C5_RejectedAsNotApproved ==
    \A f \in FundIds, sender \in Principals, recipient \in Recipients,
       amount \in PositiveAmounts :
        (disasterFunds[f].status = "DISTRIBUTED" /\ onlyAuthorized(sender)) =>
            distributeFundRevert(sender, f, recipient, amount) = FundNotApproved

C5_RejectedCallChangesNothing ==
    \A f \in FundIds, sender \in Principals, recipient \in Recipients,
       amount \in PositiveAmounts :
        (disasterFunds[f].status = "DISTRIBUTED"
            /\ distributeFund(sender, f, recipient, amount)) => UNCHANGED ledger

\* C5 (amended): on a fully distributed fund every further distributeFund call
\* by an authorized caller with a positive amount fails with the status error
\* "Fund not approved" (the status require precedes the pool-cap require), and
\* the call leaves the fund and the rest of the ledger unchanged.
C5_FullyDistributedRejects ==
    []C5_RejectedAsNotApproved /\ [][ledger' # ledger => C5_RejectedCallChangesNothing]_vars

\* a fund of total 2 fully distributed while the contract still holds ether
C5_Witness ==
    \E f \in FundIds :
        /\ disasterFunds[f].status = "DISTRIBUTED"
        /\ disasterFunds[f].distributedAmount >= 2
        /\ balance > 0

\* C6: every fund and every donation references an event id in 1..eventCounter
\* whose isVerified flag is true.
C6_ReferencesVerifiedEvent ==
    /\ \A f \in FundIds :
          /\ eventExists(disasterFunds[f].eventId)
          /\ disasterEvents[disasterFunds[f].eventId].isVerified
    /\ \A t \in TransactionIds :
          /\ eventExists(fundTransactions[t].eventId)
          /\ disasterEvents[fundTransactions[t].eventId].isVerified

\* a fund and a donation are recorded while another event is still unverified
C6_Witness ==
    /\ fundCounter >= 1
    /\ transactionCounter >= 1
    /\ \E e \in EventIds : ~disasterEvents[e].isVerified

C7_RevertReason ==
    \A sender \in Principals, e \in EventIds, amount \in Amounts \ {0} :
        onlyAuthorized(sender) =>
            createAndApproveFundRevert(sender, e, amount) =
                IF disasterEvents[e].isVerified THEN OK ELSE EventNotVerified

C7_Effect ==
    \A sender \in Principals, e \in EventIds, amount \in Amounts \ {0},
       now \in Timestamps :
        (onlyAuthorized(sender) /\ createAndApproveFund(sender, e, amount, now)) =>
            IF disasterEvents[e].isVerified
            THEN /\ fundCounter' = fundCounter + 1
                 /\ disasterFunds'[fundCounter'].status = "APPROVED"
                 /\ disasterFunds'[fundCounter'].distributedAmount = 0
                 /\ disasterFunds'[fundCounter'].totalAmount = amount
                 /\ disasterFunds'[fundCounter'].eventId = e
                 /\ disasterFunds'[fundCounter'].approvedBy = sender
                 /\ \A f \in FundIds : disasterFunds'[f] = disasterFunds[f]
            ELSE UNCHANGED <<fundCounter, disasterFunds>>

\* C7: createAndApproveFund by an authorized caller with a positive amount
\* fails with "Event not verified" on an existing unverified event, creating
\* no fund and leaving fundCounter; on a verified event it succeeds and the
\* new fund is APPROVED with distributedAmount 0, the given total and event id
\* and approvedBy the caller.
C7_CreateFundNeedsVerifiedEvent ==
    []C7_RevertReason /\ [][ledger' # ledger => C7_Effect]_vars

\* a fresh fund approved by alice, next to an event that is not verified
C7_Witness ==
    /\ \E f \in FundIds :
          /\ disasterFunds[f].status = "APPROVED"
          /\ disasterFunds[f].distributedAmount = 0
          /\ disasterFunds[f].approvedBy = "alice"
    /\ \E e \in EventIds : ~disasterEvents[e].isVerified

\* C8: no two events share an imageHash, and a hash is marked processed
\* exactly when some stored event carries it.
C8_FingerprintsUnique ==
    /\ \A e1, e2 \in EventIds :
          e1 # e2 => disasterEvents[e1].imageHash # disasterEvents[e2].imageHash
    /\ \A h \in Hashes :
          processedImageHashes[h] <=> \E e \in EventIds : disasterEvents[e].imageHash = h

\* two events are stored and both images are marked processed
C8_Witness ==
    /\ eventCounter = 2
    /\ \A h \in Hashes : processedImageHashes[h]

\* C9 as stated: every createDisasterEvent call carrying a processed image
\* hash fails with the duplicate error "Image already processed".
C9_Original ==
    \A sender \in Principals, in \in EventInputs, h \in Hashes :
        processedImageHashes[h] =>
            createDisasterEventRevert(sender, in, h) = ImageAlreadyProcessed

C9_LaterCallRejected ==
    \A sender \in Principals, in \in EventInputs, h \in Hashes :
        processedImageHashes[h] =>
            /\ Cardinality({e \in EventIds : disasterEvents[e].imageHash = h}) = 1
            /\ createDisasterEventRevert(sender, in, h) # OK
            /\ (onlyAuthorized(sender) /\ in.severityScore <= 100) =>
                   createDisasterEventRevert(sender, in, h) = ImageAlreadyProcessed
            /\ ~onlyAuthorized(sender) =>
                   createDisasterEventRevert(sender, in, h) = NotAuthorized
            /\ (onlyAuthorized(sender) /\ in.severityScore > 100) =>
                   createDisasterEventRevert(sender, in, h) = InvalidSeverityScore

C9_RejectedCallChangesNothing ==
    \A sender \in Principals, in \in EventInputs, h \in Hashes, now \in Timestamps :
        (processedImageHashes[h] /\ createDisasterEvent(sender, in, h, now)) =>
            UNCHANGED <<disasterEvents, eventCounter, allEventIds, processedImageHashes>>

\* C9 (amended): of the createDisasterEvent calls carrying one image hash at
\* most one succeeds; each later call fails, with "Image already processed"
\* when its caller is authorized and its severity score is at most 100, and
\* with the authorization or severity-score error otherwise (those two checks
\* come first), and leaves the events, the event counter, the event id list
\* and the processed hashes unchanged.
C9_DuplicateRejected ==
    []C9_LaterCallRejected /\ [][ledger' # ledger => C9_RejectedCallChangesNothing]_vars

\* one image is processed, the other is not: a resubmission would be a duplicate
C9_Witness ==
    /\ eventCounter = 1
    /\ processedImageHashes[disasterEvents[1].imageHash]
    /\ authorizedOfficials["alice"]

C10_RevertReason ==
    \A sender \in Principals, e \in EventIds :
        onlyAuthorized(sender) =>
            verifyDisasterEventRevert(sender, e) =
                IF disasterEvents[e].isVerified THEN AlreadyVerified ELSE OK

C10_Effect ==
    \A sender \in Principals, e \in EventIds :
        /\ (onlyAuthorized(sender) /\ verifyDisasterEvent(sender, e)) =>
              IF disasterEvents[e].isVerified
              THEN UNCHANGED ledger
              ELSE disasterEvents' =
                      [disasterEvents EXCEPT ![e].isVerified = TRUE]
        /\ disasterEvents[e].isVerified => disasterEvents'[e] = disasterEvents[e]

\* C10: for an existing event, of the verifyDisasterEvent calls by authorized
\* callers exactly the first succeeds and sets isVerified; every later one
\* fails with "Already verified" and leaves the event unchanged.
C10_VerifyOnlyOnce ==
    []C10_RevertReason /\ [][ledger' # ledger => C10_Effect]_vars

\* a verified event and an unverified one, with alice authorized to verify
C10_Witness ==
    /\ authorizedOfficials["alice"]
    /\ \E e \in EventIds : disasterEvents[e].isVerified
    /\ \E e \in EventIds : ~disasterEvents[e].isVerified

C11_RevertReason ==
    \A sender \in Principals :
        ~onlyAuthorized(sender) =>
            /\ \A eventId \in EventIdInputs :
                /\ verifyDisasterEventRevert(sender, eventId) = NotAuthorized
                /\ \A amount \in Amounts :
                      createAndApproveFundRevert(sender, eventId, amount) = NotAuthorized
            /\ \A fundId \in FundIdInputs, recipient \in Recipients,
                  amount \in DistributeAmounts :
                  distributeFundRevert(sender, fundId, recipient, amount) = NotAuthorized

C11_Effect ==
    \A sender \in Principals :
        ~onlyAuthorized(sender) =>
            /\ \A eventId \in EventIdInputs :
                /\ ~verifyDisasterEvent(sender, eventId)
                /\ \A amount \in Amounts, now \in Timestamps :
                      ~createAndApproveFund(sender, eventId, amount, now)
            /\ \A fundId \in FundIdInputs, recipient \in Recipients,
                  amount \in DistributeAmounts :
                  ~distributeFund(sender, fundId, recipient, amount)

\* C11: a caller that is neither the owner nor an authorized official gets
\* "Not authorized" from verifyDisasterEvent, createAndApproveFund and
\* distributeFund whatever the id, known or unknown, and no step that changes
\* the ledger is such a call.
C11_UnauthorizedRejected ==
    []C11_RevertReason /\ [][ledger' # ledger => C11_Effect]_vars

\* alice is not authorized while an unverified event, a verified event and an
\* approved fund exist for her to call on
C11_Witness ==
    /\ ~onlyAuthorized("alice")
    /\ \E e \in EventIds : ~disasterEvents[e].isVerified
    /\ \E f \in FundIds : disasterFunds[f].status = "APPROVED"

C12_OwnerPasses ==
    /\ onlyAuthorized(Owner)
    /\ \A in \in EventInputs, imageHash \in Hashes :
          createDisasterEventRevert(Owner, in, imageHash) # NotAuthorized
    /\ \A eventId \in EventIdInputs :
          /\ verifyDisasterEventRevert(Owner, eventId) # NotAuthorized
          /\ \A amount \in Amounts :
                createAndApproveFundRevert(Owner, eventId, amount) # NotAuthorized
    /\ \A fundId \in FundIdInputs, recipient \in Recipients, amount \in DistributeAmounts :
          distributeFundRevert(Owner, fundId, recipient, amount) # NotAuthorized

C12_OnlyOwnerManages ==
    \A sender \in Principals :
        /\ addAuthorizedOfficialRevert(sender) = IF sender = Owner THEN OK ELSE NotOwner
        /\ removeAuthorizedOfficialRevert(sender) = IF sender = Owner THEN OK ELSE NotOwner

C12_Effect ==
    \A sender \in Principals \ {Owner}, official \in Principals :
        /\ addAuthorizedOfficial(sender, official) =>
              authorizedOfficials' = authorizedOfficials
        /\ removeAuthorizedOfficial(sender, official) =>
              authorizedOfficials' = authorizedOfficials

\* C12: the owner passes onlyAuthorized in every state, also after
\* removeAuthorizedOfficial(owner); addAuthorizedOfficial and
\* removeAuthorizedOfficial succeed exactly for the owner, and such a call by
\* anyone else leaves authorizedOfficials as it was.
C12_OwnerAlwaysAuthorized ==
    /\ [](C12_OwnerPasses /\ C12_OnlyOwnerManages)
    /\ [][authorizedOfficials' # authorizedOfficials => C12_Effect]_vars

\* the owner has removed itself from authorizedOfficials and added alice
C12_Witness ==
    /\ ~authorizedOfficials[Owner]
    /\ authorizedOfficials["alice"]

C13_CheckFollowsFlag ==
    \A p \in Principals \ {Owner} :
        /\ onlyAuthorized(p) = authorizedOfficials[p]
        /\ \A in \in EventInputs, imageHash \in Hashes :
              (createDisasterEventRevert(p, in, imageHash) = NotAuthorized)
                  = ~authorizedOfficials[p]
        /\ \A eventId \in EventIdInputs :
              /\ (verifyDisasterEventRevert(p, eventId) = NotAuthorized)
                    = ~authorizedOfficials[p]
              /\ \A amount \in Amounts :
                    (createAndApproveFundRevert(p, eventId, amount) = NotAuthorized)
                        = ~authorizedOfficials[p]
        /\ \A fundId \in FundIdInputs, recipient \in Recipients, amount \in DistributeAmounts :
              (distributeFundRevert(p, fundId, recipient, amount) = NotAuthorized)
                  = ~authorizedOfficials[p]

C13_Effect ==
    \A p \in Principals :
        /\ authorizedOfficials'[p] # authorizedOfficials[p] =>
              IF authorizedOfficials'[p]
              THEN addAuthorizedOfficial(Owner, p)
              ELSE removeAuthorizedOfficial(Owner, p)
        /\ addAuthorizedOfficial(Owner, p) => authorizedOfficials'[p]
        /\ removeAuthorizedOfficial(Owner, p) => ~authorizedOfficials'[p]

C14_RevertReason ==
    \A sender \in Principals, eventId \in EventIdInputs, value \in Amounts :
        (donateToEventRevert(sender, eventId, value) = OK)
            = (/\ eventExists(eventId)
               /\ disasterEvents[eventId].isVerified
               /\ value > 0)

C14_Records ==
    \A t \in TransactionIds :
        /\ fundTransactions[t].amount > 0
        /\ fundTransactions[t].status = "PENDING"
        /\ fundTransactions[t].isBlockchainVerified

C14_Effect ==
    /\ \A t \in TransactionIds : fundTransactions'[t] = fundTransactions[t]
    /\ \A sender \in Principals, eventId \in EventIdInputs, value \in Amounts,
          now \in Timestamps :
          donateToEventRevert(sender, eventId, value) # OK =>
              ~donateToEvent(sender, eventId, "relief", value, now)

\* C14: donateToEvent succeeds exactly for an existing, verified event and a
\* value above zero, and a failing call records nothing; every stored donation
\* has amount > 0, status PENDING and isBlockchainVerified, and no step changes
\* a stored donation.
C14_DonationRecords ==
    /\ [](C14_RevertReason /\ C14_Records)
    /\ [][ledger' # ledger => C14_Effect]_vars

\* a donation is on record while another event is still unverified, so that
\* donations to it are refused
C14_Witness ==
    /\ \E t \in TransactionIds : fundTransactions[t].amount = MaxAmount
    /\ \E e \in EventIds : ~disasterEvents[e].isVerified

\* C15: getSeverityLevel maps a score of at most 40 to LOW, a score above 40
\* and at most 70 to MEDIUM and a score above 70 to HIGH; so 40 is LOW, 41 and
\* 70 are MEDIUM and 71 is HIGH.
C15_SeverityThresholds ==
    level # "none" =>
        /\ score <= 40 => level = "LOW"
        /\ (40 < score /\ score <= 70) => level = "MEDIUM"
        /\ score > 70 => level = "HIGH"
        /\ score = 40 => level = "LOW"
        /\ score = 41 => level = "MEDIUM"
        /\ score = 70 => level = "MEDIUM"
        /\ score = 71 => level = "HIGH"

\* the function was evaluated just above the LOW threshold
C15_Witness == score = 41 /\ level = "MEDIUM"

C16_LevelOfScore ==
    \A e \in EventIds :
        /\ disasterEvents[e].severityLevel = getSeverityLevel(disasterEvents[e].severityScore)
        /\ disasterEvents[e].severityLevel \in {"LOW", "MEDIUM", "HIGH"}
        /\ disasterEvents[e].severityLevel = "LOW" <=> disasterEvents[e].severityScore <= 40
        /\ disasterEvents[e].severityLevel = "HIGH" <=> disasterEvents[e].severityScore > 70

C16_Effect ==
    \A e \in EventIds :
        /\ disasterEvents'[e].severityScore = disasterEvents[e].severityScore
        /\ disasterEvents'[e].severityLevel = disasterEvents[e].severityLevel

\* C16: every stored event's severityLevel is getSeverityLevel of its stored
\* severityScore, and no step changes the score or the level of a stored event.
C16_LevelFollowsScore ==
    []C16_LevelOfScore /\ [][ledger' # ledger => C16_Effect]_vars

\* a LOW event and a HIGH event are stored, one of them verified since
C16_Witness ==
    /\ \E e \in EventIds : disasterEvents[e].severityLevel = "LOW"
    /\ \E e \in EventIds :
          disasterEvents[e].severityLevel = "HIGH" /\ disasterEvents[e].isVerified

C17_Effect ==
    /\ eventCounter' >= eventCounter
    /\ \A e \in EventIds :
          /\ e \in DOMAIN disasterEvents'
          /\ \/ disasterEvents'[e] = disasterEvents[e]
             \/ /\ ~disasterEvents[e].isVerified
                /\ disasterEvents'[e] = [disasterEvents[e] EXCEPT !.isVerified = TRUE]
    /\ \A e \in (DOMAIN disasterEvents') \ (DOMAIN disasterEvents) :
          ~disasterEvents'[e].isVerified

\* C17: an event is stored with isVerified false; the only change a step makes
\* to a stored event is isVerified going from false to true; every other field
\* stays as stored and no event is removed.
C17_EventLifecycle == [][ledger' # ledger => C17_Effect]_vars

\* alice's event was verified by somebody and a later event is still unverified
C17_Witness ==
    /\ eventCounter = 2
    /\ disasterEvents[1].reportedBy = "alice"
    /\ disasterEvents[1].isVerified
    /\ ~disasterEvents[2].isVerified

C18_Records ==
    /\ DOMAIN disasterEvents = 1 .. eventCounter
    /\ DOMAIN disasterFunds = 1 .. fundCounter
    /\ DOMAIN fundTransactions = 1 .. transactionCounter
    /\ \A e \in EventIds : disasterEvents[e].eventId = e
    /\ \A f \in FundIds : disasterFunds[f].fundId = f
    /\ \A t \in TransactionIds : fundTransactions[t].transactionId = t

C18_Effect ==
    /\ eventCounter' \in {eventCounter, eventCounter + 1}
    /\ fundCounter' \in {fundCounter, fundCounter + 1}
    /\ transactionCounter' \in {transactionCounter, transactionCounter + 1}
    /\ \A e \in EventIds : disasterEvents'[e].eventId = e
    /\ \A f \in FundIds : disasterFunds'[f].fundId = f
    /\ \A t \in TransactionIds : fundTransactions'[t].transactionId = t
    /\ eventCounter' # eventCounter =>
          \E sender \in Principals, in \in EventInputs, imageHash \in Hashes,
             now \in Timestamps :
              /\ createDisasterEventRevert(sender, in, imageHash) = OK
              /\ createDisasterEvent(sender, in, imageHash, now)
    /\ fundCounter' # fundCounter =>
          \E sender \in Principals, eventId \in EventIds, amount \in Amounts,
             now \in Timestamps :
              /\ createAndApproveFundRevert(sender, eventId, amount) = OK
              /\ createAndApproveFund(sender, eventId, amount, now)
    /\ transactionCounter' # transactionCounter =>
          \E sender \in Principals, eventId \in EventIds, value \in Amounts,
             now \in Timestamps :
              /\ donateToEventRevert(sender, eventId, value) = OK
              /\ donateToEvent(sender, eventId, "relief", value, now)

\* C18: the stored events, funds and donations are exactly those with ids
\* 1..counter, each carrying its key as its id; a counter moves only by one,
\* only in a successful creation of its kind, and stored ids never change.
C18_IdsFromCounters ==
    []C18_Records /\ [][ledger' # ledger => C18_Effect]_vars

\* two events, a fund and a donation have been created
C18_Witness ==
    /\ eventCounter = 2
    /\ fundCounter >= 1
    /\ transactionCounter >= 1

C19_Effect ==
    /\ \A sender \in Principals, official \in Principals :
          /\ addAuthorizedOfficialRevert(sender) # OK =>
                ~addAuthorizedOfficial(sender, official)
          /\ removeAuthorizedOfficialRevert(sender) # OK =>
                ~removeAuthorizedOfficial(sender, official)
    /\ \A sender \in Principals, in \in EventInputs, imageHash \in Hashes,
          now \in Timestamps :
          createDisasterEventRevert(sender, in, imageHash) # OK =>
              ~createDisasterEvent(sender, in, imageHash, now)
    /\ \A sender \in Principals, eventId \in EventIdInputs :
          /\ verifyDisasterEventRevert(sender, eventId) # OK =>
                ~verifyDisasterEvent(sender, eventId)
          /\ \A amount \in Amounts, now \in Timestamps :
                /\ donateToEventRevert(sender, eventId, amount) # OK =>
                      ~donateToEvent(sender, eventId, "relief", amount, now)
                /\ createAndApproveFundRevert(sender, eventId, amount) # OK =>
                      ~createAndApproveFund(sender, eventId, amount, now)
    /\ \A sender \in Principals, fundId \in FundIdInputs, recipient \in Recipients,
          amount \in DistributeAmounts :
          distributeFundRevert(sender, fundId, recipient, amount) # OK =>
              ~distributeFund(sender, fundId, recipient, amount)

\* C19: a call of createDisasterEvent, verifyDisasterEvent, donateToEvent,
\* createAndApproveFund, distributeFund, addAuthorizedOfficial or
\* removeAuthorizedOfficial that reverts, at whichever check, leaves every
\* part of the ledger as it was: no step that changes the ledger is such a call.
C19_RejectedChangesNothing == [][ledger' # ledger => C19_Effect]_vars

\* a payment that would revert only at the transfer, after the fund's
\* bookkeeping has been written
C19_Witness ==
    \E f \in FundIds, amount \in PositiveAmounts :
        distributeFundRevert(Owner, f, "rejector", amount) = TransferFailed

\* what a call must leave in the log: one event if it succeeded, none if it
\* reverted
OneEventIfOK(reason, emitted) == Len(emitted) = IF reason = OK THEN 1 ELSE 0

C20_CoreCallsEmit ==
    /\ \A sender \in Principals, in \in EventInputs, imageHash \in Hashes :
          OneEventIfOK(createDisasterEventRevert(sender, in, imageHash),
                       createDisasterEventLogs(sender, in, imageHash))
    /\ \A sender \in Principals, eventId \in EventIdInputs :
          /\ OneEventIfOK(verifyDisasterEventRevert(sender, eventId),
                          verifyDisasterEventLogs(sender, eventId))
          /\ \A amount \in Amounts :
                /\ OneEventIfOK(donateToEventRevert(sender, eventId, amount),
                                donateToEventLogs(sender, eventId, amount))
                /\ OneEventIfOK(createAndApproveFundRevert(sender, eventId, amount),
                                createAndApproveFundLogs(sender, eventId, amount))
    /\ \A sender \in Principals, fundId \in FundIdInputs, recipient \in Recipients,
          amount \in DistributeAmounts :
          OneEventIfOK(distributeFundRevert(sender, fundId, recipient, amount),
                       distributeFundLogs(sender, fundId, recipient, amount))

C20_AdminCallsEmit ==
    \A sender \in Principals, official \in Principals :
        /\ Len(addAuthorizedOfficialLogs(sender, official)) =
              IF addAuthorizedOfficialRevert(sender) = OK /\ ~authorizedOfficials[official]
              THEN 1 ELSE 0
        /\ Len(removeAuthorizedOfficialLogs(sender, official)) =
              IF removeAuthorizedOfficialRevert(sender) = OK /\ authorizedOfficials[official]
              THEN 1 ELSE 0

\* C20: every successful createDisasterEvent, verifyDisasterEvent,
\* donateToEvent, createAndApproveFund and distributeFund, and every
\* addAuthorizedOfficial and removeAuthorizedOfficial that changes the
\* authorized set, emits exactly one event, and a reverted call emits none.
C20_EveryTransitionEmits == C20_CoreCallsEmit /\ C20_AdminCallsEmit

\* C21 as stated: createDisasterEvent with an unprocessed image hash and a
\* severity score and damage percentage of at most 100 succeeds for every
\* caller, authorized or not.
C21_AnyoneMayReport ==
    \A sender \in Principals, in \in EventInputs, imageHash \in Hashes :
        (/\ ~processedImageHashes[imageHash]
         /\ in.severityScore <= MaxScore
         /\ in.infrastructureDamage <= 100) =>
            createDisasterEventRevert(sender, in, imageHash) = OK

\* C22 as stated: createDisasterEvent rejects every call whose
\* _infrastructureDamage is above 100, and so no stored event has
\* infrastructureDamage above 100.
C22_DamageValidated ==
    /\ \A sender \in Principals, in \in EventInputs, imageHash \in Hashes :
          in.infrastructureDamage > 100 =>
              createDisasterEventRevert(sender, in, imageHash) # OK
    /\ \A e \in EventIds : disasterEvents[e].infrastructureDamage <= 100

\* the distributeFund calls C23 is about: an authorized caller, an APPROVED fund
C23_Calls ==
    { c \in [sender : Principals, fundId : FundIds, recipient : Recipients,
             amount : DistributeAmounts] :
        /\ onlyAuthorized(c.sender)
        /\ disasterFunds[c.fundId].status = "APPROVED" }

C23_Reason(c) == distributeFundRevert(c.sender, c.fundId, c.recipient, c.amount)

C23_WithinCap(c) ==
    disasterFunds[c.fundId].distributedAmount + c.amount
        <= disasterFunds[c.fundId].totalAmount

\* C23 as stated: within the cap but above the contract's balance the call
\* fails with "Insufficient contract balance"; above the cap it fails with
\* "Insufficient fund balance", whatever the balance.
C23_Original ==
    \A c \in C23_Calls :
        /\ (C23_WithinCap(c) /\ balance < c.amount) =>
              C23_Reason(c) = InsufficientContractBalance
        /\ ~C23_WithinCap(c) => C23_Reason(c) = InsufficientFundBalance

C23_RevertReason ==
    /\ InsufficientContractBalance # InsufficientFundBalance
    /\ \A c \in C23_Calls :
        /\ (C23_WithinCap(c) /\ balance < c.amount) =>
              C23_Reason(c) = InsufficientContractBalance
        /\ ~C23_WithinCap(c) =>
              C23_Reason(c) =
                  IF disasterFunds[c.fundId].distributedAmount + c.amount > MaxUint
                  THEN ArithmeticPanic
                  ELSE InsufficientFundBalance

C23_Effect ==
    \A c \in C23_Calls :
        (balance < c.amount \/ ~C23_WithinCap(c)) =>
            ~distributeFund(c.sender, c.fundId, c.recipient, c.amount)

\* C23 (amended): distributeFund by an authorized caller on an APPROVED fund
\* fails with "Insufficient contract balance" when the amount fits the fund but
\* exceeds the contract's balance, and with "Insufficient fund balance" when it
\* does not fit the fund, whatever the balance, unless distributedAmount +
\* amount overflows uint256, which fails with an arithmetic panic; no such call
\* changes the ledger.
C23_CustodyLimit ==
    []C23_RevertReason /\ [][ledger' # ledger => C23_Effect]_vars

\* a partly paid fund could take one more unit, but the contract holds nothing
C23_Witness ==
    \E f \in FundIds :
        /\ disasterFunds[f].status = "APPROVED"
        /\ disasterFunds[f].distributedAmount = 1
        /\ disasterFunds[f].totalAmount = 2
        /\ balance = 0

TransactionIdInputs == 0 .. transactionCounter + 1

\* C25: getDisasterEvent returns the stored event for 1 <= id <= eventCounter
\* and reverts with "Event does not exist" for id 0 and ids above the counter;
\* getDisasterFund and getFundTransaction do the same against fundCounter and
\* transactionCounter; the list and balance getters return the stored values.
C25_Accessors ==
    /\ \A id \in EventIdInputs :
          IF 1 <= id /\ id <= eventCounter
          THEN /\ getDisasterEventRevert(id) = OK
               /\ getDisasterEvent(id).eventId = id
               /\ getDisasterEvent(id) = disasterEvents[id]
          ELSE getDisasterEventRevert(id) = EventDoesNotExist
    /\ \A id \in FundIdInputs :
          IF 1 <= id /\ id <= fundCounter
          THEN /\ getDisasterFundRevert(id) = OK
               /\ getDisasterFund(id).fundId = id
               /\ getDisasterFund(id) = disasterFunds[id]
          ELSE getDisasterFundRevert(id) = FundDoesNotExist
    /\ \A id \in TransactionIdInputs :
          IF 1 <= id /\ id <= transactionCounter
          THEN /\ getFundTransactionRevert(id) = OK
               /\ getFundTransaction(id).transactionId = id
               /\ getFundTransaction(id) = fundTransactions[id]
          ELSE getFundTransactionRevert(id) = InvalidTransaction
    /\ getAllEventIds = allEventIds
    /\ getAllTransactionIds = allTransactionIds
    /\ getContractBalance = balance

\* an event, a fund and a donation are stored and the contract holds ether
C25_Witness ==
    /\ eventCounter >= 1
    /\ fundCounter >= 1
    /\ transactionCounter >= 1
    /\ balance > 0

\* C26: allEventIds is the sequence 1, 2, ..., eventCounter: every created
\* event once, in the order of creation, and its length is the event count.
C26_EventIdList ==
    /\ Len(getAllEventIds) = eventCounter
    /\ \A i \in 1 .. eventCounter : getAllEventIds[i] = i
    /\ \A i \in 1 .. eventCounter : getAllEventIds[i] \in DOMAIN disasterEvents

\* two events were created, by different reporters
C26_Witness ==
    /\ Len(allEventIds) = 2
    /\ disasterEvents[1].reportedBy # disasterEvents[2].reportedBy

\* C30 as stated: a createDisasterEvent call with a processed image hash fails
\* with "Image already processed" also when its severity score is above 100.
C30_FingerprintFirst ==
    \A sender \in Principals, in \in EventInputs, imageHash \in Hashes :
        (/\ onlyAuthorized(sender)
         /\ processedImageHashes[imageHash]
         /\ in.severityScore > MaxScore) =>
            createDisasterEventRevert(sender, in, imageHash) = ImageAlreadyProcessed

\* the positions of the log before position i that hold an event of this kind
EarlierLogs(i, kind) == {j \in 1 .. i - 1 : logs[j].event = kind}

\* the events of one kind, in the order of the log
LogsOf(kind) == SelectSeq(logs, LAMBDA e : e.event = kind)

RECURSIVE DistributedInLog(_, _)
DistributedInLog(fundId, n) ==
    IF n = 0 THEN 0
    ELSE DistributedInLog(fundId, n - 1) +
         IF logs[n].event = "FundDistributed" /\ logs[n].fundId = fundId
         THEN logs[n].amount ELSE 0

\* C29: in the log of every execution a FundApproved or FundDonated event for
\* event E comes after DisasterEventVerified for E, which comes after
\* DisasterEventCreated for E, and a FundDistributed event for fund F comes
\* after FundApproved for F; every fund and donation on the ledger belongs to a
\* verified event; and the events of one aggregate are logged in the order
\* its writes were committed: created, approved and donated ids ascend with
\* their counters and the distributions logged for a fund add up to its
\* distributedAmount.
C29_LifecycleOrder ==
    /\ \A i \in 1 .. Len(logs) :
        /\ logs[i].event \in {"FundApproved", "FundDonated"} =>
              \E j \in EarlierLogs(i, "DisasterEventVerified") :
                  logs[j].eventId = logs[i].eventId
        /\ logs[i].event = "DisasterEventVerified" =>
              \E j \in EarlierLogs(i, "DisasterEventCreated") :
                  logs[j].eventId = logs[i].eventId
        /\ logs[i].event = "FundDistributed" =>
              \E j \in EarlierLogs(i, "FundApproved") :
                  /\ logs[j].fundId = logs[i].fundId
                  /\ logs[j].eventId = logs[i].eventId
    /\ \A f \in FundIds : disasterEvents[disasterFunds[f].eventId].isVerified
    /\ \A t \in TransactionIds :
          disasterEvents[fundTransactions[t].eventId].isVerified
    /\ Len(LogsOf("DisasterEventCreated")) = eventCounter
    /\ \A n \in EventIds : LogsOf("DisasterEventCreated")[n].eventId = n
    /\ Len(LogsOf("FundApproved")) = fundCounter
    /\ \A n \in FundIds : LogsOf("FundApproved")[n].fundId = n
    /\ Len(LogsOf("FundDonated")) = transactionCounter
    /\ \A n \in TransactionIds : LogsOf("FundDonated")[n].transactionId = n
    /\ \A f \in FundIds :
          DistributedInLog(f, Len(logs)) = disasterFunds[f].distributedAmount

\* a donation was logged and a fund paid out a positive amount
C29_Witness ==
    /\ \E i \in 1 .. Len(logs) : logs[i].event = "FundDonated"
    /\ \E i \in 1 .. Len(logs) :
          logs[i].event = "FundDistributed" /\ logs[i].amount > 0

\* C27: while a distributeFund call is at its transfer, every distributeFund
\* and donateToEvent call the recipient makes is rejected, with the
\* reentrancy guard's reason once its other modifiers pass, and what the
\* ledger shows of the fund is the updated distributedAmount and status,
\* within the fund's total.
C27_ExclusivePerFund ==
    frame # <<>> =>
        LET call == frame[1]
            paid == call.before.disasterFunds[call.fundId]
            fund == getDisasterFund(call.fundId)
        IN
        /\ \A sender \in Principals, fundId \in FundIdInputs,
              recipient \in Payees, amount \in DistributeAmounts :
            /\ distributeFundGuarded(sender, fundId, recipient, amount)
                  \notin {OK, TransferFailed}
            /\ onlyAuthorized(sender) /\ fundExists(fundId) =>
                  distributeFundGuarded(sender, fundId, recipient, amount)
                      = ReentrantCall
        /\ \A sender \in Principals, eventId \in EventIdInputs, value \in Amounts :
            /\ donateToEventGuarded(sender, eventId, value) # OK
            /\ eventExists(eventId) =>
                  donateToEventGuarded(sender, eventId, value) = ReentrantCall
        /\ call.reentered \in {"none", NotAuthorized, FundDoesNotExist,
                               EventDoesNotExist, ReentrantCall}
        /\ fund.distributedAmount = paid.distributedAmount + call.amount
        /\ fund.distributedAmount <= fund.totalAmount
        /\ fund.status = IF fund.distributedAmount >= fund.totalAmount
                         THEN "DISTRIBUTED" ELSE "APPROVED"

\* the recipient of a positive payment called back and met the guard
C27_Witness ==
    /\ frame # <<>>
    /\ frame[1].amount > 0
    /\ frame[1].reentered = ReentrantCall

\* C28: when the transfer of a distributeFund call fails, the call's update of
\* distributedAmount and status is undone, the ether is back with the
\* contract, nothing else on the ledger differs and no FundDistributed event
\* is logged.
C28_FailedTransferRestores ==
    [][frame # <<>> /\ frame' = <<>> /\ receipts' = <<TransferFailed>> =>
          LET call == frame[1] IN
          /\ disasterFunds' =
                [disasterFunds EXCEPT
                    ![call.fundId].distributedAmount = @ - call.amount,
                    ![call.fundId].status = "APPROVED"]
          /\ balance' = IF call.recipient = Self THEN balance
                        ELSE balance + call.amount
          /\ Snapshot' = call.before
          /\ logs' = logs]_vars

\* a payment of the whole fund was refused and the fund is as it was
C28_Witness ==
    /\ frame = <<>>
    /\ receipts = <<TransferFailed>>
    /\ logs = <<>>
    /\ \E f \in FundIds :
        /\ disasterFunds[f].distributedAmount = 0
        /\ disasterFunds[f].status = "APPROVED"
        /\ disasterFunds[f].totalAmount <= balance

\* the reports whose factors are all at one sub-score
AllAt(in, x) == \A k \in Factors : subScores(in)[k] = x

C31_RevertReason ==
    \A sender \in Principals, in \in EventInputs, imageHash \in Hashes :
        in.severityScore > MaxScore =>
            /\ createDisasterEventRevert(sender, in, imageHash) # OK
            /\ onlyAuthorized(sender) =>
                  createDisasterEventRevert(sender, in, imageHash)
                      = InvalidSeverityScore

C31_Effect ==
    \A imageHash \in Hashes :
        processedImageHashes'[imageHash] # processedImageHashes[imageHash] =>
            /\ eventCounter' = eventCounter + 1
            /\ disasterEvents'[eventCounter'].imageHash = imageHash
            /\ disasterEvents'[eventCounter'].severityScore \in 0 .. MaxScore

C31_ScoreWithinRange ==
    /\ [](\A e \in EventIds : disasterEvents[e].severityScore \in 0 .. MaxScore)
    /\ []C31_RevertReason
    /\ [][ledger' # ledger => C31_Effect]_vars

\* an event is stored, and an authorized caller offering the score 101 with
\* an image not seen before is turned away for the score
C31_Witness ==
    /\ eventCounter > 0
    /\ \E sender \in Principals, in \in EventInputs, imageHash \in Hashes :
        /\ in.severityScore > MaxScore
        /\ ~processedImageHashes[imageHash]
        /\ createDisasterEventRevert(sender, in, imageHash) = InvalidSeverityScore

\* the amount a step adds to fund f's distributedAmount
Paid(f) == disasterFunds'[f].distributedAmount - disasterFunds[f].distributedAmount

\* C32: a step in which fund F's distributedAmount grows, a successful
\* distributeFund on F, changes of the funds only F's distributedAmount and
\* status, lowers the balance by exactly the amount distributed, and leaves
\* every event, donation, counter, processed image hash and authorization
\* as it was.
C32_OnlyFundAndBalance ==
    [][\A f \in FundIds :
          Paid(f) > 0 =>
              /\ disasterFunds' =
                    [disasterFunds EXCEPT
                        ![f].distributedAmount = disasterFunds'[f].distributedAmount,
                        ![f].status = disasterFunds'[f].status]
              /\ balance' = balance - Paid(f)
              /\ UNCHANGED <<authorizedOfficials, eventCounter, transactionCounter,
                             fundCounter, disasterEvents, fundTransactions,
                             processedImageHashes, allEventIds,
                             allTransactionIds>>]_vars

\* C33: a distributeFund call whose amount takes distributedAmount + amount
\* beyond the largest uint256 is rejected, by the arithmetic panic once the
\* caller is authorized and the fund is APPROVED, even where the sum wrapped
\* modulo 2^256 would be within the fund's total; no step of the ledger
\* takes a fund's distributedAmount beyond its total or beyond the integer
\* range.
C33_Overflows(f, amount) == disasterFunds[f].distributedAmount + amount > MaxUint

C33_RevertReason ==
    \A sender \in Principals, f \in FundIds, recipient \in Recipients,
       amount \in 0 .. MaxUint :
        C33_Overflows(f, amount) =>
            /\ distributeFundRevert(sender, f, recipient, amount)
                  \in {NotAuthorized, FundNotApproved, ArithmeticPanic}
            /\ onlyAuthorized(sender) /\ disasterFunds[f].status = "APPROVED" =>
                  distributeFundRevert(sender, f, recipient, amount)
                      = ArithmeticPanic

C33_NoOverflowBypass ==
    /\ []C33_RevertReason
    /\ [](\A f \in FundIds :
             disasterFunds[f].distributedAmount
                 \in 0 .. disasterFunds[f].totalAmount)
    /\ [](\A f \in FundIds : disasterFunds[f].totalAmount \in 0 .. MaxUint)

\* an APPROVED fund already paid from, for which the largest amount wraps to
\* a sum within the total, and the call is turned away by the panic
C33_Witness ==
    \E f \in FundIds :
        /\ disasterFunds[f].status = "APPROVED"
        /\ disasterFunds[f].distributedAmount >= 1
        /\ (disasterFunds[f].distributedAmount + MaxUint) % (MaxUint + 1)
              <= disasterFunds[f].totalAmount
        /\ distributeFundRevert(Owner, f, "payee", MaxUint) = ArithmeticPanic

RECURSIVE DonatedUpTo(_, _)
\* the amounts of the donations 1 .. n of a donation table
DonatedUpTo(table, n) ==
    IF n = 0 THEN 0 ELSE table[n].amount + DonatedUpTo(table, n - 1)

RECURSIVE DistributedUpTo(_, _)
\* the distributedAmount of the funds 1 .. n of a fund table
DistributedUpTo(table, n) ==
    IF n = 0 THEN 0 ELSE table[n].distributedAmount + DistributedUpTo(table, n - 1)

\* what a step adds to the balance beyond the donations it records and the
\* distributions it books: ether sent straight to the contract
DirectlyReceived ==
    (balance' - balance)
    - (DonatedUpTo(fundTransactions', transactionCounter')
         - DonatedUpTo(fundTransactions, transactionCounter))
    + (DistributedUpTo(disasterFunds', fundCounter')
         - DistributedUpTo(disasterFunds, fundCounter))

\* C34: the balance is the ether received, by donations and by plain
\* transfers to receive(), less the amounts distributed: it starts at zero
\* with nothing donated or distributed, every step changes it by the
\* donations recorded plus the ether sent straight to the contract minus the
\* amounts booked as distributed, ether being sent straight to the contract
\* only in steps that write nothing else, and it is never negative.
C34_CustodyConserved ==
    /\ [](balance >= 0)
    /\ [](mined = 0 => balance = 0 /\ transactionCounter = 0 /\ fundCounter = 0)
    /\ [][ledger' # ledger =>
            /\ DirectlyReceived >= 0
            /\ DirectlyReceived > 0 =>
                  UNCHANGED <<authorizedOfficials, eventCounter, transactionCounter,
                              fundCounter, disasterEvents, fundTransactions,
                              disasterFunds, processedImageHashes, allEventIds,
                              allTransactionIds>>]_vars

\* the funds and the donations that name event e
FundsOf(e) == {f \in FundIds : disasterFunds[f].eventId = e}
DonationsOf(e) == {t \in TransactionIds : fundTransactions[t].eventId = e}

DistributedFor(e) ==
    SumOver([f \in FundIds |-> disasterFunds[f].distributedAmount], FundsOf(e))
ApprovedFor(e) ==
    SumOver([f \in FundIds |-> disasterFunds[f].totalAmount], FundsOf(e))
DonatedFor(e) ==
    SumOver([t \in TransactionIds |-> fundTransactions[t].amount], DonationsOf(e))

\* C35: custody is one balance: an authorized caller may approve a fund of any
\* positive total for any verified event, whatever was donated or is held and
\* however many funds the event has; a distribution is accepted exactly when
\* the caller is authorized, the fund is APPROVED, the amount fits the fund's
\* remaining total and the contract's balance, and the recipient accepts, the
\* donations recorded for the fund's event playing no part; and what is
\* distributed for an event stays within the totals of its funds.
C35_FundAccepted ==
    \A sender \in Principals, e \in EventIds, amount \in Amounts \ {0} :
        onlyAuthorized(sender) /\ disasterEvents[e].isVerified =>
            createAndApproveFundRevert(sender, e, amount) = OK

C35_DistributionAccepted ==
    \A sender \in Principals, f \in FundIds, recipient \in Recipients,
       amount \in DistributeAmounts :
        distributeFundRevert(sender, f, recipient, amount) = OK <=>
            /\ onlyAuthorized(sender)
            /\ disasterFunds[f].status = "APPROVED"
            /\ disasterFunds[f].distributedAmount + amount
                  <= disasterFunds[f].totalAmount
            /\ amount <= balance
            /\ transferSucceeds(recipient)

C35_SharedCustody ==
    /\ C35_FundAccepted
    /\ C35_DistributionAccepted
    /\ \A e \in EventIds : DistributedFor(e) <= ApprovedFor(e)

\* event 1 has two funds and no donation; all the ether the contract ever
\* held was donated to event 2; one of event 1's funds was paid out in full
C35_Witness ==
    /\ Cardinality(FundsOf(1)) >= 2
    /\ DonatedFor(1) = 0
    /\ DonatedFor(2) > 0
    /\ balance + DistributedFor(1) + DistributedFor(2) = DonatedFor(2)
    /\ balance < DonatedFor(2)
    /\ \E f \in FundsOf(1) :
        /\ disasterFunds[f].status = "DISTRIBUTED"
        /\ disasterFunds[f].distributedAmount = disasterFunds[f].totalAmount

\* C36: a distributeFund call with amount 0 on an APPROVED fund is rejected
\* and leaves no FundDistributed event: every accepted distribution adds a
\* positive amount to the fund's distributedAmount.
C36_ZeroDistributionRejected ==
    \A sender \in Principals, f \in FundIds, recipient \in Recipients :
        disasterFunds[f].status = "APPROVED" =>
            /\ distributeFundRevert(sender, f, recipient, 0) # OK
            /\ distributeFundLogs(sender, f, recipient, 0) = <<>>

\* C37: the store's loading flag is true exactly while at least one call of
\* a store action has its request in flight, whatever the order in which
\* overlapping calls start and settle.
C37_LoadingWhileInFlight == store.loading <=> InFlight # {}

\* the calls that settle in a step
Settling == {i \in InFlight : requests'[i].status # "pending"}

\* the events of a list with the one of this id marked verified
MarkedVerified(events, eventId) ==
    [k \in DOMAIN events |->
        [id |-> events[k].id,
         is_verified |-> events[k].is_verified \/ events[k].id = eventId]]

\* C38: the events list is untouched when verifyEvent is called; when its
\* request succeeds the call resolves with the response and the list
\* differs only in that the event of the given id is verified; when the
\* request fails the list is as before, the store's error holds the
\* message and the call resolves with undefined, never rejecting; a
\* createEvent or createFund call whose request fails rejects.
C38_VerifyEffect ==
    /\ Len(requests') > Len(requests) => store'.events = store.events
    /\ \A i \in Settling :
        LET r == requests[i]
            failed == requests'[i].request = "failed"
        IN
        /\ r.action = "verifyEvent" =>
            /\ requests'[i].status = "resolved"
            /\ Len(requests'[i].value) = IF failed THEN 0 ELSE 1
            /\ store'.events = IF failed THEN store.events
                               ELSE MarkedVerified(store.events, r.arg)
        /\ r.action \in {"createEvent", "createFund"} =>
            (requests'[i].status = "rejected" <=> failed)
        /\ failed => store'.events = store.events /\ store'.error = ErrorMessage

C38_VerifyAfterSuccess == [][C38_VerifyEffect]_vars

\* the list was fetched with two unverified events, and a verifyEvent call
\* for event 2 resolved with the response: event 2 alone is verified
C38_Witness ==
    /\ \E i \in DOMAIN requests :
        /\ requests[i].action = "verifyEvent"
        /\ requests[i].arg = 2
        /\ requests[i].status = "resolved"
        /\ Len(requests[i].value) = 1
    /\ store.events = << [id |-> 2, is_verified |-> TRUE],
                         [id |-> 1, is_verified |-> FALSE] >>
    /\ store.error = Null

====
